---- MODULE Spec2Model ----
(***************************************************************************)
(* A state-machine model of the p5.brush engine (src/unnamed/part_003):    *)
(* the Plot path object, the shape/stroke recorder and Spline builder, the *)
(* FlowField registry, and the brush stroke engine with its mask/blend     *)
(* (Mix) session.                                                          *)
(*                                                                         *)
(* Numbers.  Lengths and coordinates are integers; angles are integer      *)
(* degrees; pressures are integers in units of 1/100.  Canvas coordinates  *)
(* and brush spacings are in units of 1/100 pixel.  The input sets are     *)
(* chosen so that every division the code performs on them is exact, and   *)
(* angleMode is degrees.                                                   *)
(* A JavaScript number that may be NaN or Infinity is a record             *)
(* [k |-> "num" | "nan" | "inf", v |-> Int].                               *)
(***************************************************************************)
EXTENDS Integers, Sequences, FiniteSets, TLC

VARIABLES
    plot,        \* the Plot object under construction / query (or NoPlot)
    ret,         \* value returned by the last Plot.angle / Plot.pressure call
    isReady,     \* _isReady
    ffActive,    \* FF.isActive
    ffCurrent,   \* FF.current
    ffList,      \* FF.list: field name -> its generator and its grid reference
    ffShared,    \* contents of FF.field, the one grid allocated by FF.create
    B,           \* the brush state: B.isActive, B.c, B.w, B.name
    bList,       \* B.list: brush name -> its parameters
    F,           \* the fill state: F.isActive, F.c
    mix,         \* the offscreen mask of Mix: open sessions, content, event log
    rec,         \* the recorder: _strokeArray and _strokeOption
    out,         \* what the last API call did: tips placed, strokes, fills
    tips,        \* T.tips: image source -> what is stored for it
    pending,     \* image source -> Image objects whose onload has not fired yet
    polygon,     \* the Polygon object the caller keeps: a, _intersectionCache
    pol          \* the FillPolygon the caller keeps (obj: v, m, midP) and the
                 \* number of grow calls it came from

plotVars == <<plot, ret>>
fieldVars == <<isReady, ffActive, ffCurrent, ffList, ffShared>>
brushVars == <<B, bList, F, mix, rec, out>>
tipVars == <<tips, pending>>
libVars == <<tips, pending, polygon, pol>>
vars == <<plot, ret, isReady, ffActive, ffCurrent, ffList, ffShared,
          B, bList, F, mix, rec, out, tips, pending, polygon, pol>>

-----------------------------------------------------------------------------
(* JavaScript numbers *)

Num(n) == [k |-> "num", v |-> n]
NaN    == [k |-> "nan", v |-> 0]
Inf    == [k |-> "inf", v |-> 1]
NegInf == [k |-> "inf", v |-> -1]
IsNum(r) == r.k = "num"

Abs(n) == IF n < 0 THEN -n ELSE n
Min2(a, b) == IF a < b THEN a ELSE b
Max2(a, b) == IF a > b THEN a ELSE b

\* JavaScript's % : the remainder takes the sign of the dividend.
JsMod(a, n) == IF a >= 0 THEN a % n ELSE -((-a) % n)

\* Quotient of two integers, rounded toward zero (exact on the model's inputs).
Quot(n, m) ==
    IF (n >= 0) = (m > 0) THEN Abs(n) \div Abs(m) ELSE -(Abs(n) \div Abs(m))

\* R.constrain
Constrain(n, low, high) == Max2(Min2(n, high), low)

\* The end of R.map: r itself, or r constrained to the target range.
RMapResult(r, c, d, withinBounds) ==
    IF ~withinBounds THEN Num(r)
    ELSE IF c < d THEN Num(Constrain(r, c, d)) ELSE Num(Constrain(r, d, c))

\* R.map(value, a, b, c, d, withinBounds): c + (value - a) / (b - a) * (d - c).
\* A zero divisor gives 0/0 = NaN, or an infinity that `constrain` clamps to
\* the nearer end of the target range (Infinity * 0 is NaN again).
RMap(value, a, b, c, d, withinBounds) ==
    IF b = a
      THEN IF value = a \/ d = c THEN NaN
           ELSE IF ~withinBounds THEN Inf
           ELSE IF (value > a) = (d > c) THEN Num(Max2(c, d)) ELSE Num(Min2(c, d))
      ELSE RMapResult(c + Quot((value - a) * (d - c), b - a), c, d, withinBounds)

-----------------------------------------------------------------------------
(* Plot *)

MaxSegs == 2                       \* segments added to one Plot
AngleInputs == {-402, 12, 348}     \* angles passed to addSegment / endPlot
LengthInputs == {0, 2}             \* segment lengths
PresInputs == {50, 100}           \* pressures (0.5 and 1.0)
RotateInputs == {0, 90}            \* Plot.rotate offsets
PlotTypes == {"curve", "segments"}

NoPlot == [type |-> "none", segments |-> <<>>, angles |-> <<>>, pres |-> <<>>,
           dir |-> 0, length |-> 0, index |-> 0, suma |-> 0, ended |-> FALSE]

\* The while loop of Plot.calcIndex: `d += this.segments[this.index+1]` makes d
\* NaN past the last segment, which ends the loop after one more index++.
RECURSIVE CalcIndexLoop(_, _, _, _, _)
CalcIndexLoop(segments, _d, index, suma, d) ==
    IF d <= _d
      THEN IF index + 2 <= Len(segments)
             THEN CalcIndexLoop(segments, _d, index + 1, d, d + segments[index + 2])
             ELSE [index |-> index + 1, suma |-> d]
      ELSE [index |-> index, suma |-> suma]

\* Plot.calcIndex(_d): the plot with index and suma recomputed.
SetIndex(p, r) == [p EXCEPT !.index = r.index, !.suma = r.suma]
calcIndex(p, _d) == SetIndex(p, CalcIndexLoop(p.segments, _d, -1, 0, 0))

\* new Plot(_type)
NewPlotObj(type) == calcIndex([NoPlot EXCEPT !.type = type], 0)

SumSeq(s) == LET RECURSIVE Sum(_)
                 Sum(i) == IF i = 0 THEN 0 ELSE s[i] + Sum(i - 1)
             IN  Sum(Len(s))

\* The splice(-1) of addSegment / endPlot: drop the last element, if any.
DropLast(s) == IF Len(s) > 0 THEN SubSeq(s, 1, Len(s) - 1) ELSE s

\* Plot.addSegment(_a, _length, _pres, true)
addSegment(p, _a, _length, _pres) ==
    LET a == JsMod(_a + 360, 360)
        segs == Append(p.segments, _length)
    IN  [p EXCEPT !.angles = Append(Append(DropLast(p.angles), a), a),
                  !.pres = Append(p.pres, _pres),
                  !.segments = segs,
                  !.length = SumSeq(segs)]

\* Plot.endPlot(_a, _pres, true)
endPlot(p, _a, _pres) ==
    [p EXCEPT !.angles = Append(DropLast(p.angles), _a),
              !.pres = Append(p.pres, _pres),
              !.ended = TRUE]

\* `this.length` is only assigned by addSegment; before that it is undefined and
\* every comparison with it is false.
HasLength(p) == Len(p.segments) > 0

\* The wrap-around step of Plot.curving: the pair (map0, map1) it interpolates
\* between, one end shifted by -360 when they are more than 180 apart.
curvingEnds(map0, map1) ==
    IF Abs(map1 - map0) > 180
      THEN IF map1 > map0 THEN <<map0, -(360 - map1)>> ELSE <<-(360 - map0), map1>>
      ELSE <<map0, map1>>

\* The interpolation of Plot.curving between the two ends.
curvingMap(p, _d, ends) ==
    RMap(_d - p.suma, 0, p.segments[p.index + 1], ends[1], ends[2], TRUE)

\* Plot.curving(array, _d), with the index and suma currently stored in p.
\* array[this.index] is array[p.index + 1] here; a missing array[this.index + 1]
\* is replaced by array[this.index]; any other undefined operand gives NaN.
curving(p, array, _d) ==
    IF p.index + 1 < 1 \/ p.index + 1 > Len(array) \/ p.index + 1 > Len(p.segments)
      THEN NaN
      ELSE curvingMap(p, _d,
               curvingEnds(array[p.index + 1],
                           IF p.index + 2 <= Len(array) THEN array[p.index + 2]
                           ELSE array[p.index + 1]))

\* Plot.pressure(_d): uses the index left behind by the last calcIndex.
pressure(p, _d) ==
    IF HasLength(p) /\ _d > p.length
      THEN IF Len(p.pres) > 0 THEN Num(p.pres[Len(p.pres)]) ELSE NaN
      ELSE curving(p, p.pres, _d)

\* The plot after Plot.angle(_d): calcIndex runs unless the early return does.
angleState(p, _d) ==
    IF HasLength(p) /\ _d > p.length THEN p ELSE calcIndex(p, _d)

\* c + this.dir, for a c that may be NaN
PlusDir(c, dir) == IF IsNum(c) THEN Num(c.v + dir) ELSE c

\* Plot.angle interpolating for both plot types.
angleAtCurved(q, _d) == PlusDir(curving(q, q.angles, _d), q.dir)

\* The value Plot.angle returns once calcIndex has run (q is the plot then).
angleAt(q, _d) ==
    IF q.type = "curve"
      THEN PlusDir(curving(q, q.angles, _d), q.dir)
      ELSE IF q.index + 1 <= Len(q.angles)
             THEN Num(q.angles[q.index + 1] + q.dir)
             ELSE NaN

\* Plot.angle(_d)
angle(p, _d) ==
    IF HasLength(p) /\ _d > p.length
      THEN Num(p.angles[Len(p.angles)])
      ELSE angleAt(calcIndex(p, _d), _d)

-----------------------------------------------------------------------------
(* Plot operations as actions *)

PlotNew(type) ==
    /\ plot.type = "none"
    /\ plot' = NewPlotObj(type)
    /\ UNCHANGED <<ret, fieldVars, brushVars, libVars>>

PlotAddSegment(a, len, pr) ==
    /\ plot.type # "none"
    /\ ~plot.ended
    /\ Len(plot.segments) < MaxSegs
    /\ plot' = addSegment(plot, a, len, pr)
    /\ UNCHANGED <<ret, fieldVars, brushVars, libVars>>

PlotEndPlot(a, pr) ==
    /\ plot.type # "none"
    /\ ~plot.ended
    /\ plot' = endPlot(plot, a, pr)
    /\ UNCHANGED <<ret, fieldVars, brushVars, libVars>>

PlotRotate(a) ==
    /\ plot.type # "none"
    /\ plot' = [plot EXCEPT !.dir = a]
    /\ UNCHANGED <<ret, fieldVars, brushVars, libVars>>

\* Distances a caller samples: the whole path and one step past its end.
SampleDists(p) == 0 .. (p.length + 1)

PlotAngle(d) ==
    /\ plot.type # "none"
    /\ ret' = angle(plot, d)
    /\ plot' = angleState(plot, d)
    /\ UNCHANGED <<fieldVars, brushVars, libVars>>

PlotPressure(d) ==
    /\ plot.type # "none"
    /\ ret' = pressure(plot, d)
    /\ UNCHANGED <<plot, fieldVars, brushVars, libVars>>

InitPlot ==
    /\ plot = NoPlot
    /\ ret = Num(0)

NextPlot ==
    \/ \E t \in PlotTypes : PlotNew(t)
    \/ \E a \in AngleInputs, len \in LengthInputs, pr \in PresInputs :
          PlotAddSegment(a, len, pr)
    \/ \E a \in AngleInputs, pr \in PresInputs : PlotEndPlot(a, pr)
    \/ \E a \in RotateInputs : PlotRotate(a)
    \/ \E d \in SampleDists(plot) : PlotAngle(d)
    \/ \E d \in SampleDists(plot) : PlotPressure(d)

\* The specification of sampling: plots built from two angles on either side
\* of 0, sampled along their length.
SegAngles == {12, 348}
EndPres == {100}

NextSample ==
    \/ \E t \in PlotTypes : PlotNew(t)
    \/ \E a \in SegAngles, len \in LengthInputs, pr \in PresInputs :
          PlotAddSegment(a, len, pr)
    \/ \E a \in SegAngles, pr \in EndPres : PlotEndPlot(a, pr)
    \/ \E a \in RotateInputs : PlotRotate(a)
    \/ \E d \in SampleDists(plot) : PlotAngle(d)
    \/ \E d \in SampleDists(plot) : PlotPressure(d)

-----------------------------------------------------------------------------
(* Canvas, rounding, trigonometry on the axis directions *)

Px(n) == 100 * n                   \* n pixels in model units
Canvas == [width |-> Px(250), height |-> Px(250)]     \* _r.width, _r.height

\* Math.round(n / d)
MathRoundDiv(n, d) ==
    IF d = 0 THEN (IF n = 0 THEN NaN ELSE IF n > 0 THEN Inf ELSE NegInf)
    ELSE IF d > 0 THEN Num((2 * n + d) \div (2 * d))
    ELSE Num((2 * (-n) - d) \div (2 * (-d)))

\* The number of iterations of `for (let i = 0; i < n / d; i++)`.
LoopCount(n, d) ==
    IF d = 0 THEN (IF n > 0 THEN Inf ELSE Num(0))
    ELSE IF n = 0 \/ ((n > 0) # (d > 0)) THEN Num(0)
    ELSE Num((Abs(n) + Abs(d) - 1) \div Abs(d))

\* (angle % 360 + 360) % 360
Norm360(a) == JsMod(JsMod(a, 360) + 360, 360)

\* R.cos and R.sin; the model only passes multiples of 90 degrees.
cos(a) ==
    CASE Norm360(a) = 0 -> 1
      [] Norm360(a) = 90 -> 0
      [] Norm360(a) = 180 -> -1
      [] Norm360(a) = 270 -> 0

sin(a) ==
    CASE Norm360(a) = 0 -> 0
      [] Norm360(a) = 90 -> 1
      [] Norm360(a) = 180 -> 0
      [] Norm360(a) = 270 -> -1

\* p5's dist(x1, y1, x2, y2): the Euclidean distance (an integer on the inputs).
dist(x1, y1, x2, y2) ==
    LET dx == Abs(x2 - x1)
        dy == Abs(y2 - y1)
    IN  IF dx = 0 THEN dy
        ELSE IF dy = 0 THEN dx
        ELSE CHOOSE d \in 0 .. (dx + dy) : d * d = dx * dx + dy * dy

\* _calculateAngle(x1, y1, x2, y2): atan2(-(y2 - y1), x2 - x1) in degrees,
\* normalised to [0, 360), for point pairs on one axis.
_calculateAngle(x1, y1, x2, y2) ==
    LET dx == x2 - x1
        ny == -(y2 - y1)
    IN  CASE ny = 0 /\ dx >= 0 -> 0
          [] ny = 0 /\ dx < 0 -> 180
          [] dx = 0 /\ ny > 0 -> 90
          [] dx = 0 /\ ny < 0 -> 270

-----------------------------------------------------------------------------
(* Mix: the offscreen mask and the blend pass *)

Ev(e, c) == [e |-> e, c |-> c]

\* The mask right after Mix.load(): a new framebuffer, cleared.
MixLoad(m) == [open |-> 0, dirty |-> FALSE, log |-> m.log]

\* Mix.mask.begin() / Mix.mask.end()
MaskBegin(m) == [m EXCEPT !.open = @ + 1, !.log = Append(@, Ev("begin", ""))]
MaskEnd(m) == [m EXCEPT !.open = @ - 1, !.log = Append(@, Ev("end", ""))]

\* A shape drawn by the renderer: on the mask while a session is open, on the
\* canvas otherwise.
Render(m) == IF m.open > 0 THEN [m EXCEPT !.dirty = TRUE] ELSE m

\* Mix.blend(_c): the shader pass with colour _c, then the mask is cleared.
MixBlend(m, _c) ==
    [m EXCEPT !.dirty = FALSE,
              !.log = Append(Append(@, Ev("blend", _c)), Ev("clear", ""))]

-----------------------------------------------------------------------------
(* The brush catalogue *)

BrushNames == {"HB", "pen", "spray", "marker", "marker2"}

\* Entries of _standard_brushes: type, spacing (1/100 px), quality, and the
\* `max` of pressure.min_max (1/100).
BrushDef(name) ==
    CASE name = "HB" -> [type |-> "default", spacing |-> 25, quality |-> 4, max |-> 90]
      [] name = "pen" -> [type |-> "default", spacing |-> 30, quality |-> 8, max |-> 100]
      [] name = "spray" -> [type |-> "spray", spacing |-> 65, quality |-> 40, max |-> 120]
      [] name = "marker" -> [type |-> "marker", spacing |-> 40, quality |-> 0, max |-> 100]
      [] name = "marker2" -> [type |-> "custom", spacing |-> 60, quality |-> 0, max |-> 100]

\* B.add(a, b): the stored parameters, with blend decided by the tip type.
add(b) ==
    [type |-> b.type, spacing |-> b.spacing, quality |-> b.quality, max |-> b.max,
     blend |-> b.type \in {"marker", "custom", "image"}]

_standard_brushes == [n \in BrushNames |-> add(BrushDef(n))]

\* globalScale(_scale) with _scale = num / den: spacing *= _scale.
globalScale(list, num, den) ==
    [n \in DOMAIN list |-> [list[n] EXCEPT !.spacing = Quot(@ * num, den)]]

-----------------------------------------------------------------------------
(* FlowField *)

StandardFields == <<"curved", "truncated", "zigzag", "waves", "seabed">>
UserFields == {"flat0", "flat90"}          \* fields a caller registers
FieldNames == {StandardFields[i] : i \in 1 .. Len(StandardFields)} \cup UserFields
TimeInputs == {0, 1}                       \* the t passed to refresh
RandDraws == {1, 2}                        \* outcomes of the generators' R.randInt draws

\* What a grid holds: which generator wrote it, for which t, with which random
\* draw.  EmptyGrid is the zero-filled grid of FF.create.
EmptyGrid == [by |-> "", t |-> 0, rnd |-> 0]
GridOf(name, t, rnd) == [by |-> name, t |-> t, rnd |-> rnd]

\* An entry of FF.list.  ref says what `.field` refers to: nothing yet, FF.field
\* itself (the standard generators fill FF.field and return it), or a grid of
\* the field's own (a caller's generator returns the grid it built).
NoField == [gen |-> "none", ref |-> "undefined", own |-> EmptyGrid]
IsStandard(name) == \E i \in 1 .. Len(StandardFields) : StandardFields[i] = name

\* The angle stored in every cell of a grid that a caller's generator built:
\* the caller fields are uniform.  (The standard fields' noise is not modelled
\* cell by cell; no stroke of the model is drawn through one.)
CellAngle(grid) ==
    CASE grid.by = "flat0" -> 0
      [] grid.by = "flat90" -> 90

\* The field-registry part of the state, as one record.
FFState == [current |-> ffCurrent, list |-> ffList, shared |-> ffShared]

\* FF.refresh(t): list.get(current).field = list.get(current).gen(t)
refresh(ff, t, rnd) ==
    LET name == ff.current
        g == GridOf(name, t, rnd)
    IN  IF IsStandard(name)
          THEN [ff EXCEPT !.shared = g,
                          !.list[name] = [@ EXCEPT !.ref = "FF.field"]]
          ELSE [ff EXCEPT !.list[name] = [@ EXCEPT !.ref = "own", !.own = g]]

\* addField(name, funct) once the system is ready: register, make current, refresh.
addFieldReady(ff, name, rnd) ==
    refresh([ff EXCEPT !.list[name] = [NoField EXCEPT !.gen = name],
                       !.current = name], 0, rnd)

\* FF.addStandard(): the five addField calls, draws[i] the i-th generator's draw.
RECURSIVE addStandardFrom(_, _, _)
addStandardFrom(ff, i, draws) ==
    IF i > Len(StandardFields) THEN ff
    ELSE addStandardFrom(addFieldReady(ff, StandardFields[i], draws[i]), i + 1, draws)

\* FF.create(): a fresh zero-filled FF.field, then addStandard.
create(ff, draws) == addStandardFrom([ff EXCEPT !.shared = EmptyGrid], 1, draws)

\* FF.flow_field(): the grid the current field's entry refers to.
flow_field(ff) ==
    LET e == ff.list[ff.current]
    IN  IF e.ref = "FF.field" THEN ff.shared ELSE e.own

Registered(name) == ffList[name].gen # "none"

\* The draws of the five standard generators, made only when the call loads
\* the system.
DrawSeqs == [1 .. Len(StandardFields) -> RandDraws]
NoDraws == [i \in 1 .. Len(StandardFields) |-> 1]
LoadDraws == IF isReady THEN {NoDraws} ELSE DrawSeqs

SetFF(ff) ==
    /\ ffCurrent' = ff.current
    /\ ffList' = ff.list
    /\ ffShared' = ff.shared

-----------------------------------------------------------------------------
(* Loading the system *)

\* The part of the state that loadSystem() rewrites, at the start of a call.
\* m carries the mask together with the log of the call's mask events.
Sys == [ff |-> FFState, list |-> bList,
        m |-> [open |-> mix.open, dirty |-> mix.dirty, log |-> <<>>]]

\* loadSystem(): Mix.load(), FF.create(), globalScale(_r.width / 250).
loadSystemOn(s, draws, width) ==
    [ff |-> create(s.ff, draws),
     list |-> globalScale(s.list, width, Px(250)),
     m |-> MixLoad(s.m)]

\* loadSystem() with no canvasID: _r is the window.
loadSystem(s, draws) == loadSystemOn(s, draws, Canvas.width)

\* _ensureReady()
_ensureReady(s, ready, draws) == IF ready THEN s ELSE loadSystem(s, draws)

SetSys(s) ==
    /\ SetFF(s.ff)
    /\ bList' = s.list
    /\ mix' = [open |-> s.m.open, dirty |-> s.m.dirty]

\* What an API call reports: op and args name the call; tips are the positions
\* at which B.tip() drew, evals counts the B.tip() calls, strokes the B.draw()
\* calls, blends those made with a blend brush, fills the FillPolygon.fill()
\* calls, log the mask events in order; hung says the call never returns,
\* error that it threw; built is the Plot a Spline constructor made for it;
\* lines are the B.line calls, steps the position at every B.tip() call with
\* whether it drew, pos the position the call ended at.
NoOut(op, args) ==
    [op |-> op, args |-> args, tips |-> <<>>, evals |-> 0, strokes |-> 0,
     blends |-> 0, fills |-> 0, lines |-> <<>>, steps |-> <<>>, marks |-> <<>>,
     pos |-> [x |-> 0, y |-> 0, nan |-> FALSE, plotted |-> Num(0)],
     log |-> <<>>, hung |-> FALSE,
     error |-> FALSE, built |-> NoPlot]

\* The report of a call that draws nothing.
Quiet == NoOut("none", <<>>)

\* A call that never returns is the last thing the program does.
Running == ~out.hung

\* load()
LoadSystem(draws) ==
    /\ Running
    /\ isReady' = TRUE
    /\ SetSys(loadSystem(Sys, draws))
    /\ out' = Quiet
    /\ UNCHANGED <<ffActive, plotVars, libVars, B, F, rec>>

\* load(canvasID), canvasID a canvas of the given width.  Every load scales
\* the brushes again; MaxRescale bounds how far the model follows that.
MaxRescale == 4
CanvasWidths == {Px(250), Px(500)}
Rescaled(list) == list["HB"].spacing > MaxRescale * BrushDef("HB").spacing

LoadSystemOn(width, draws) ==
    /\ Running
    /\ ~Rescaled(bList)
    /\ isReady' = TRUE
    /\ SetSys(loadSystemOn(Sys, draws, width))
    /\ out' = NoOut("load", <<width>>)
    /\ UNCHANGED <<ffActive, plotVars, libVars, B, F, rec>>

\* selectField(a)
SelectField(a, draws) ==
    /\ Running
    /\ IF isReady THEN Registered(a) ELSE IsStandard(a)
    /\ isReady' = TRUE
    /\ ffActive' = TRUE
    /\ LET s == _ensureReady(Sys, isReady, draws)
       IN  SetSys([s EXCEPT !.ff.current = a])
    /\ out' = Quiet
    /\ UNCHANGED <<plotVars, libVars, B, F, rec>>

\* disableField()
DisableField ==
    /\ Running
    /\ ffActive' = FALSE
    /\ out' = Quiet
    /\ UNCHANGED <<isReady, ffCurrent, ffList, ffShared, plotVars, libVars, B, bList, F, mix, rec>>

\* addField(name, funct) with a caller's generator
AddField(name, draws, rnd) ==
    /\ Running
    /\ isReady' = TRUE
    /\ LET s == _ensureReady(Sys, isReady, draws)
       IN  SetSys([s EXCEPT !.ff = addFieldReady(s.ff, name, rnd)])
    /\ out' = Quiet
    /\ UNCHANGED <<ffActive, plotVars, libVars, B, F, rec>>

\* refreshField(t): throws before changing anything when no field is current.
RefreshField(t, rnd) ==
    /\ Running
    /\ ffCurrent \in FieldNames
    /\ Registered(ffCurrent)
    /\ SetFF(refresh(FFState, t, rnd))
    /\ out' = Quiet
    /\ UNCHANGED <<isReady, ffActive, plotVars, libVars, B, bList, F, mix, rec>>

InitField ==
    /\ isReady = FALSE
    /\ ffActive = FALSE
    /\ ffCurrent = ""
    /\ ffList = [n \in FieldNames |-> NoField]
    /\ ffShared = EmptyGrid

NextField ==
    \/ \E draws \in DrawSeqs : LoadSystem(draws)
    \/ \E a \in FieldNames, draws \in LoadDraws : SelectField(a, draws)
    \/ DisableField
    \/ \E n \in UserFields, draws \in LoadDraws, rnd \in RandDraws : AddField(n, draws, rnd)
    \/ \E t \in TimeInputs, rnd \in RandDraws : RefreshField(t, rnd)

\* The specification of loading: explicit loads on canvases of two widths,
\* and the calls that load the system when nothing has.
NextLoad ==
    \/ \E w \in CanvasWidths : LoadSystemOn(w, NoDraws)
    \/ \E a \in FieldNames : SelectField(a, NoDraws)
    \/ DisableField
    \/ \E n \in UserFields : AddField(n, NoDraws, 1)
    \/ \E t \in TimeInputs : RefreshField(t, 1)

-----------------------------------------------------------------------------
(* Position *)

\* FF.R, FF.left_x, FF.top_y, FF.num_columns, FF.num_rows as FF.create sets them
FF_R == Canvas.width \div 100
left_x == -Canvas.width
top_y == -Canvas.height
num_columns == MathRoundDiv(2 * Canvas.width, FF_R).v
num_rows == MathRoundDiv(2 * Canvas.height, FF_R).v

\* new Position(x, y).  nan says that x and y are NaN.
Position(x, y) == [x |-> x, y |-> y, nan |-> FALSE, plotted |-> Num(0)]

\* The column_index / row_index that Position.update computes under a field.
\* The renderer's translation _trans() is [0, 0]: no call of the model moves
\* the origin.
column_index(pos) == MathRoundDiv(pos.x - left_x, FF_R).v
row_index(pos) == MathRoundDiv(pos.y - top_y, FF_R).v

\* Position.isInCanvas()
isInCanvas(pos) ==
    LET w == (55 * Canvas.width) \div 100
        h == (55 * Canvas.height) \div 100
    IN  /\ ~pos.nan
        /\ pos.x >= -w /\ pos.x <= w
        /\ pos.y >= -h /\ pos.y <= h

\* Position.isIn(), with active = FF.isActive
isIn(pos, active) ==
    IF active
      THEN /\ ~pos.nan
           /\ column_index(pos) >= 0 /\ row_index(pos) >= 0
           /\ column_index(pos) < num_columns /\ row_index(pos) < num_rows
      ELSE isInCanvas(pos)

\* Position.angle(), with cell the angle the current field stores
posAngle(pos, env) == IF isIn(pos, env.active) /\ env.active THEN env.cell ELSE 0

\* plotted += n
AddPlotted(pl, n) == IF IsNum(pl) THEN Num(pl.v + n) ELSE pl

\* Position.update after one step of length len at angle ang, with plotted
\* advanced by d.  An undefined angle (R.cos of NaN) makes x and y NaN.
Advance(pos, ang, len, d) ==
    IF IsNum(ang) /\ ~pos.nan
      THEN [pos EXCEPT !.x = @ + len * cos(ang.v), !.y = @ + len * sin(ang.v),
                       !.plotted = AddPlotted(@, d)]
      ELSE [pos EXCEPT !.nan = TRUE, !.plotted = AddPlotted(@, d)]

\* a - r, for an r that may be NaN
Minus(a, r) == IF IsNum(r) THEN Num(a - r.v) ELSE r

\* Position.moveTo's loop with the field's angle and the direction added
\* instead of subtracted (a sign slip in `angle - _dir`).
RECURSIVE MoveStepsAdded(_, _, _, _, _, _)
MoveStepsAdded(pos, env, n, _dir, _step_length, isFlow) ==
    IF n = 0 THEN pos
    ELSE MoveStepsAdded(Advance(pos,
                                Num(IF isFlow THEN posAngle(pos, env) + _dir ELSE -_dir),
                                _step_length, _step_length),
                        env, n - 1, _dir, _step_length, isFlow)

\* Position.moveTo(_length, _dir, _step_length, isFlow).  B.draw passes the
\* same value as _length and _step_length, so the loop runs once, or not at
\* all when both are 0 (0 / 0 is NaN).
RECURSIVE MoveSteps(_, _, _, _, _, _)
MoveSteps(pos, env, n, _dir, _step_length, isFlow) ==
    IF n = 0 THEN pos
    ELSE MoveSteps(Advance(pos,
                           Num(IF isFlow THEN posAngle(pos, env) - _dir ELSE -_dir),
                           _step_length, _step_length),
                   env, n - 1, _dir, _step_length, isFlow)

\* Position.moveTo without the isIn() test: the loop runs wherever the
\* position is.
moveToAnywhere(pos, env, _length, _dir, _step_length, isFlow) ==
    MoveSteps(pos, env, LoopCount(_length, _step_length).v, _dir,
              _step_length, isFlow)

moveTo(pos, env, _length, _dir, _step_length, isFlow) ==
    IF isIn(pos, env.active)
      THEN MoveSteps(pos, env, LoopCount(_length, _step_length).v, _dir,
                     _step_length, isFlow)
      ELSE [pos EXCEPT !.plotted = AddPlotted(@, _step_length)]

\* Plot.angle / Plot.pressure / the plot after Plot.angle, at a distance that
\* may be NaN: every comparison with NaN is false, so calcIndex leaves index -1.
plotAngle(p, d) == IF IsNum(d) THEN angle(p, d.v) ELSE NaN
plotAfterAngle(p, d) ==
    IF IsNum(d) THEN angleState(p, d.v) ELSE [p EXCEPT !.index = -1, !.suma = 0]
plotPressure(p, d) == IF IsNum(d) THEN pressure(p, d.v) ELSE NaN

\* Position.plotTo(_plot, _length, _step_length, _scale): the position and the
\* plot (whose index Plot.angle moves) afterwards.  Outside the field or the
\* canvas the step is divided by `scale`, which is not the parameter _scale
\* but p5's global function: plotted becomes NaN.
RECURSIVE PlotSteps(_, _, _, _, _, _)
PlotSteps(pos, env, n, _plot, _step_length, _scale) ==
    IF n = 0 THEN [pos |-> pos, plot |-> _plot]
    ELSE PlotSteps(Advance(pos,
                           Minus(posAngle(pos, env), plotAngle(_plot, pos.plotted)),
                           _step_length, Quot(_step_length, _scale)),
                   env, n - 1, plotAfterAngle(_plot, pos.plotted),
                   _step_length, _scale)

plotTo(pos, env, _plot, _length, _step_length, _scale) ==
    IF isIn(pos, env.active)
      THEN PlotSteps(pos, env, LoopCount(_length, _step_length).v, _plot,
                     _step_length, _scale)
      ELSE [pos |-> [pos EXCEPT !.plotted = NaN], plot |-> _plot]

-----------------------------------------------------------------------------
(* The brush engine *)

\* What a stroke reads of the global state: FF.isActive and the angle in the
\* current field's cells, the selected brush's parameters (B.p), B.w and B.c.
Env(s) ==
    [active |-> ffActive,
     cell |-> IF ffActive THEN CellAngle(flow_field(s.ff)) ELSE 0,
     p |-> s.list[B.name], w |-> B.w, c |-> B.c, cr |-> B.cr]

\* The drawing state of B (position, length, flow, plot) together with the
\* mask and what the call has drawn so far.
D0(m) ==
    [position |-> Position(0, 0), length |-> 0, flow |-> FALSE,
     hasPlot |-> FALSE, plot |-> NoPlot, m |-> m,
     tips |-> <<>>, evals |-> 0, strokes |-> 0, blends |-> 0, fills |-> 0,
     lines |-> <<>>, steps |-> <<>>, marks |-> <<>>, hung |-> FALSE, error |-> FALSE]

\* B.initializeDrawingState(x, y, length, flow, plot)
initializeDrawingState(D, x, y, length, flow, hasPlot, plt) ==
    [D EXCEPT !.position = Position(x, y), !.length = length, !.flow = flow,
              !.hasPlot = hasPlot,
              !.plot = IF hasPlot THEN calcIndex(plt, 0) ELSE NoPlot]

\* The spacing without the stroke weight (a forgotten `* this.w`).
spacingOfBrush(env) == env.p.spacing

\* B.spacing()
spacing(env) == env.p.spacing * env.w

\* B.simPressure(): B.gauss() maps a value in (0, 1] into the interval between
\* the brush's min and max pressure, both positive for every standard brush.
\* The engine reads the pressure through its sign only; the model takes max.
simPressure(env) == env.p.max

\* sim * pp in 1/100, for a pp that may be NaN
TimesPressure(sim, pp) == IF IsNum(pp) THEN Num(Quot(sim * pp.v, 100)) ELSE pp

\* B.calculatePressure()
calculatePressure(D, env) ==
    IF D.hasPlot
      THEN TimesPressure(simPressure(env), plotPressure(D.plot, D.position.plotted))
      ELSE Num(simPressure(env))

\* B.drawSpray's loop `for (j = 0; j < quality / pressure; j++)` never ends
\* when the pressure is 0: quality / 0 is Infinity.
SprayDiverges(env, pr) == env.p.quality > 0 /\ IsNum(pr) /\ pr.v = 0

\* The spray tip draws nothing when quality / pressure is NaN or negative.
TipDraws(env, pr) == env.p.type = "spray" => (IsNum(pr) /\ pr.v > 0)

\* B.cr: undefined until clip(clippingRegion) sets [x1, y1, x2, y2]
NoClip == [on |-> FALSE, r |-> <<0, 0, 0, 0>>]

\* B.isInsideClippingArea(); every comparison with a NaN coordinate is false
isInsideClippingArea(pos, cr) ==
    IF cr.on
      THEN /\ ~pos.nan
           /\ pos.x >= cr.r[1] /\ pos.x <= cr.r[3]
           /\ pos.y >= cr.r[2] /\ pos.y <= cr.r[4]
      ELSE TRUE

\* What B.tip() leaves in the report: where it was called and whether it drew
Step(pos, drew) ==
    [x |-> pos.x, y |-> pos.y, nan |-> pos.nan, plotted |-> pos.plotted, drew |-> drew]

\* B.tip() at pressure pr: nothing is drawn outside the clipping area.  A
\* default tip is one circle at most: its grain threshold may skip it.
tipAt(D, env, pr) ==
    IF ~isInsideClippingArea(D.position, env.cr)
      THEN [D EXCEPT !.evals = @ + 1, !.steps = Append(@, Step(D.position, FALSE))]
    ELSE IF env.p.type = "spray" /\ SprayDiverges(env, pr)
      THEN [D EXCEPT !.evals = @ + 1, !.hung = TRUE]
      ELSE IF TipDraws(env, pr)
             THEN [D EXCEPT !.evals = @ + 1,
                            !.tips = Append(@, [x |-> D.position.x, y |-> D.position.y,
                                                nan |-> D.position.nan]),
                            !.steps = Append(@, Step(D.position, TRUE)),
                            !.m = Render(@)]
             ELSE [D EXCEPT !.evals = @ + 1, !.steps = Append(@, Step(D.position, FALSE))]

\* B.tip()
tip(D, env) == tipAt(D, env, calculatePressure(D, env))

\* The loop `for (let s = 1; s < 5; s++)` of B.markerTip: the fractions s / 5
\* of the pressure, in 1/100, at which it draws the tip.
RECURSIVE PassesFrom(_, _)
PassesFrom(s, last) == IF s < last THEN <<Quot(100 * s, 5)>> \o PassesFrom(s + 1, last) ELSE <<>>

MarkerPasses == PassesFrom(1, 5)

\* B.markerTip(): the footprint of a marker, custom or image tip; marks holds
\* the passes of every footprint.
markerTip(D, env) ==
    IF isInsideClippingArea(D.position, env.cr)
          /\ env.p.type \in {"marker", "custom", "image"}
      THEN [D EXCEPT !.m = Render(@), !.marks = Append(@, MarkerPasses)]
      ELSE D

\* B.pushState()
pushState(D, env) ==
    IF env.p.blend THEN markerTip([D EXCEPT !.m = MaskBegin(@)], env) ELSE D

\* popState without Mix.mask.end(): the blend runs with the session open.
popStateOpen(D, env) ==
    IF env.p.blend
      THEN [markerTip(D, env) EXCEPT !.m = MixBlend(@, env.c)]
      ELSE D

\* B.popState()
popState(D, env) ==
    IF env.p.blend
      THEN [markerTip(D, env) EXCEPT !.m = MixBlend(MaskEnd(@), env.c)]
      ELSE D

\* The move that follows the tip in B.draw's loop: plotTo or moveTo.
SetPosition(T, r) == [T EXCEPT !.position = r.pos, !.plot = r.plot]
move(T, env, st, angle_scale, isPlot) ==
    IF T.hung THEN T
    ELSE IF isPlot
      THEN SetPosition(T, plotTo(T.position, env, T.plot, st, st, angle_scale))
      ELSE [T EXCEPT !.position = moveTo(@, env, st, angle_scale, st, T.flow)]

\* A round that skips the move along with the tip outside the clipping area.
roundClipped(D, env, st, angle_scale, isPlot) ==
    IF D.hung THEN D
    ELSE IF isInsideClippingArea(D.position, env.cr)
      THEN move(tip(D, env), env, st, angle_scale, isPlot)
      ELSE tip(D, env)

\* One round of B.draw's loop: the tip, then the move.  A tip that never
\* returns ends everything.
round(D, env, st, angle_scale, isPlot) ==
    IF D.hung THEN D ELSE move(tip(D, env), env, st, angle_scale, isPlot)

\* B.draw's loop `for (steps = 0; steps < total_steps; steps++)`: the rounds
\* steps .. total_steps - 1 in order.  The range is run by halves (DrawRest
\* runs the second half after the first), which keeps the evaluation of a long
\* stroke shallow.
RECURSIVE DrawLoop(_, _, _, _, _, _, _)
RECURSIVE DrawRest(_, _, _, _, _, _, _)
DrawLoop(D, env, st, angle_scale, isPlot, steps, total_steps) ==
    IF ~(steps < total_steps) THEN D
    ELSE IF total_steps - steps = 1 THEN round(D, env, st, angle_scale, isPlot)
    ELSE DrawRest(DrawLoop(D, env, st, angle_scale, isPlot, steps,
                           steps + ((total_steps - steps) \div 2)),
                  env, st, angle_scale, isPlot,
                  steps + ((total_steps - steps) \div 2), total_steps)

DrawRest(H, env, st, angle_scale, isPlot, mid, total_steps) ==
    IF H.hung THEN H ELSE DrawLoop(H, env, st, angle_scale, isPlot, mid, total_steps)

\* The end of B.draw: popState, unless the loop never ended.
drawEnd(D2, env) == IF D2.hung THEN D2 ELSE popState(D2, env)

\* B.draw after pushState: the loop.  With total_steps = Infinity it never
\* ends; with NaN or a negative number it does not run.
drawSteps(D1, env, st, total_steps, angle_scale, isPlot) ==
    IF total_steps = Inf THEN [D1 EXCEPT !.hung = TRUE]
    ELSE drawEnd(DrawLoop(D1, env, st, angle_scale, isPlot, 0,
                          IF IsNum(total_steps) THEN total_steps.v ELSE 0), env)

\* B.draw(angle_scale, isPlot)
draw(D, env, angle_scale, isPlot) ==
    drawSteps(pushState([D EXCEPT !.strokes = @ + 1,
                                  !.blends = IF env.p.blend THEN @ + 1 ELSE @], env),
              env, spacing(env),
              IF isPlot THEN MathRoundDiv(D.length * angle_scale, spacing(env))
              ELSE MathRoundDiv(D.length, spacing(env)),
              angle_scale, isPlot)

\* B.line(x1, y1, x2, y2); nothing more happens once a stroke hangs.
line(D, env, x1, y1, x2, y2) ==
    IF D.hung THEN D
    ELSE draw(initializeDrawingState([D EXCEPT !.lines = Append(@, <<x1, y1, x2, y2>>)],
                                     x1, y1, dist(x1, y1, x2, y2), FALSE, FALSE, NoPlot),
              env, _calculateAngle(x1, y1, x2, y2), FALSE)

\* B.flowLine(x, y, length, dir)
flowLine(D, env, x, y, length, dir) ==
    draw(initializeDrawingState(D, x, y, length, TRUE, FALSE, NoPlot), env, dir, FALSE)

\* B.flowShape(p, x, y, scale)
flowShape(D, env, p, x, y, scale) ==
    draw(initializeDrawingState(D, x, y, p.length, TRUE, TRUE, p), env, scale, TRUE)

-----------------------------------------------------------------------------
(* Polygons, fills and hatching *)

Pt(x, y) == [x |-> x, y |-> y]

\* new Polygon(array): array is a sequence of points; sides[i] joins vertex i
\* to the next one, the last to the first.
sides(array) ==
    [i \in 1 .. Len(array) |-> <<array[i], array[(i % Len(array)) + 1]>>]

\* _intersectLines(seg1Start, seg1End, seg2Start, seg2End): only the second
\* segment is bounded (0 <= ub <= 1); the first is taken as an infinite line.
_intersectLines(seg1Start, seg1End, seg2Start, seg2End) ==
    LET x1 == seg1Start.x   y1 == seg1Start.y
        x2 == seg1End.x     y2 == seg1End.y
        x3 == seg2Start.x   y3 == seg2Start.y
        x4 == seg2End.x     y4 == seg2End.y
        deltaX1 == x2 - x1  deltaY1 == y2 - y1
        deltaX2 == x4 - x3  deltaY2 == y4 - y3
        denominator == deltaY2 * deltaX1 - deltaX2 * deltaY1
        uaNum == deltaX2 * (y1 - y3) - deltaY2 * (x1 - x3)
        ubNum == deltaX1 * (y1 - y3) - deltaY1 * (x1 - x3)
        ubIn == IF denominator > 0 THEN 0 <= ubNum /\ ubNum <= denominator
                ELSE denominator <= ubNum /\ ubNum <= 0
    IN  IF (x1 = x2 /\ y1 = y2) \/ (x3 = x4 /\ y3 = y4) \/ denominator = 0 \/ ~ubIn
          THEN <<>>
          ELSE <<Pt(x1 + Quot(uaNum * deltaX1, denominator),
                    y1 + Quot(uaNum * deltaY1, denominator))>>

\* Polygon.intersect(line): the intersections with the sides, in side order.
RECURSIVE IntersectFrom(_, _, _)
IntersectFrom(sd, ln, i) ==
    IF i > Len(sd) THEN <<>>
    ELSE _intersectLines(ln[1], ln[2], sd[i][1], sd[i][2]) \o IntersectFrom(sd, ln, i + 1)

intersect(array, ln) == IntersectFrom(sides(array), ln, 1)

\* FillPolygon.fill(color, intensity): one mask session holding the layers,
\* then the blend with the fill colour.
FillPolygonFill(m, color) == MixBlend(MaskEnd(Render(MaskBegin(m))), color)

\* F.fill(polygon)
fill(D, array) ==
    IF F.isActive /\ ~D.hung
      THEN [D EXCEPT !.m = FillPolygonFill(@, F.c), !.fills = @ + 1]
      ELSE D

\* Polygon.draw(): B.line along every side when the brush is active.
RECURSIVE DrawSides(_, _, _, _)
DrawSides(D, env, sd, i) ==
    IF i > Len(sd) THEN D
    ELSE DrawSides(line(D, env, sd[i][1].x, sd[i][1].y, sd[i][2].x, sd[i][2].y),
                   env, sd, i + 1)

polygonDraw(D, env, array) == IF B.isActive THEN DrawSides(D, env, sides(array), 1) ELSE D

\* drawRectangle(x, y, w, h)
drawRectangle(D, env, x, y, w, h) ==
    LET p == <<Pt(x, y), Pt(x + w, y), Pt(x + w, y + h), Pt(x, y + h)>>
    IN  fill(polygonDraw(D, env, p), p)

\* The bounding box B.hatch computes over the polygon's points.
MinOf(S) == CHOOSE m \in S : \A n \in S : m <= n
MaxOf(S) == CHOOSE m \in S : \A n \in S : m >= n
Xs(array) == {array[i].x : i \in 1 .. Len(array)}
Ys(array) == {array[i].y : i \in 1 .. Len(array)}

\* linea(i) of B.hatch: the i-th probe line, two points one pixel apart.
linea(array, dist1, ang, i) ==
    LET minX == MinOf(Xs(array))
        startY == IF ang <= 90 /\ ang >= 0 THEN MinOf(Ys(array)) ELSE MaxOf(Ys(array))
        px == minX + dist1 * i * cos(-ang + 90)
        py == startY + dist1 * i * sin(-ang + 90)
    IN  <<Pt(px, py), Pt(px + Px(1) * cos(-ang), py + Px(1) * sin(-ang))>>

\* ventana: the bounding polygon
ventana(array) ==
    <<Pt(MinOf(Xs(array)), MinOf(Ys(array))), Pt(MaxOf(Xs(array)), MinOf(Ys(array))),
      Pt(MaxOf(Xs(array)), MaxOf(Ys(array))), Pt(MinOf(Xs(array)), MaxOf(Ys(array)))>>

\* The sort of dots[i]: by x, then by y.
PtBefore(a, b) == IF a.x = b.x THEN a.y < b.y ELSE a.x < b.x

\* The probe loop `while (ventana.intersect(linea(i)).length > 0)`: the dots
\* of every probe line until one misses the bounding polygon.
RECURSIVE ProbeLoop(_, _, _, _)
ProbeLoop(array, dist1, ang, i) ==
    IF Len(intersect(ventana(array), linea(array, dist1, ang, i))) > 0
      THEN <<SortSeq(intersect(array, linea(array, dist1, ang, i)), PtBefore)>>
               \o ProbeLoop(array, dist1, ang, i + 1)
      ELSE <<>>

\* With dist = 0 every probe line is linea(0): the loop never ends once the
\* first one meets the bounding polygon.
ProbeDiverges(array, dist1, ang) ==
    dist1 = 0 /\ Len(intersect(ventana(array), linea(array, dist1, ang, 0))) > 0

\* The drawing loops of B.hatch with the default options: B.line between the
\* dots (i, i + 1), i = 0, 2, 4, ... of every probe line that has dots.
RECURSIVE HatchPairs(_, _, _, _)
HatchPairs(D, env, dd, i) ==
    IF ~(i < Len(dd)) THEN D
    ELSE HatchPairs(line(D, env, dd[i].x, dd[i].y, dd[i + 1].x, dd[i + 1].y),
                    env, dd, i + 2)

RECURSIVE HatchLines(_, _, _, _)
HatchLines(D, env, dots, j) ==
    IF j > Len(dots) THEN D
    ELSE HatchLines(HatchPairs(D, env, dots[j], 1), env, dots, j + 1)

\* B.hatch(polygons, dist, angle) for one polygon
hatch(D, env, array, dist1, angle1) ==
    LET ang == JsMod(angle1, 180)
    IN  IF ProbeDiverges(array, dist1, ang) THEN [D EXCEPT !.hung = TRUE]
        ELSE HatchLines(D, env, ProbeLoop(array, dist1, ang, 0), 1)

-----------------------------------------------------------------------------
(* Spline and Plot.draw *)

\* The curvature-0 branch of the Spline constructor: one segment per point
\* pair, with pressure 1, and endPlot after the last pair.
RECURSIVE SplineSegments(_, _, _)
SplineSegments(p, array_points, i) ==
    IF i > Len(array_points) - 1 THEN p
    ELSE LET p1 == array_points[i]
             p2 == array_points[i + 1]
             d == dist(p1.x, p1.y, p2.x, p2.y)
             a == _calculateAngle(p1.x, p1.y, p2.x, p2.y)
             q == addSegment(p, a, d, 100)
         IN  SplineSegments(IF i = Len(array_points) - 1 THEN endPlot(q, a, 100) ELSE q,
                            array_points, i + 1)

\* The curvature > 0 branch of the Spline constructor, curvature in 1/100,
\* for points that follow one another in one direction (the branch
\* `Math.floor(a1) === Math.floor(a2)`; the arcs of a corner are outside the
\* model's trigonometry).  It looks at the points three at a time: the last
\* pair (i = length - 2) passes `i < array_points.length - 2` by, and the
\* `else if (curvature === 0)` too.  A point [x, y] has no p[2], and
\* addSegment's default pressure 1 applies.
RECURSIVE SplineCurve(_, _, _, _)
SplineCurve(p, array_points, curvature, i) ==
    IF i > Len(array_points) - 1 THEN p
    ELSE IF i < Len(array_points) - 1
      THEN LET p1 == array_points[i]
               p2 == array_points[i + 1]
               p3 == array_points[i + 2]
               d1 == dist(p1.x, p1.y, p2.x, p2.y)
               d2 == dist(p2.x, p2.y, p3.x, p3.y)
               a1 == _calculateAngle(p1.x, p1.y, p2.x, p2.y)
               a2 == _calculateAngle(p2.x, p2.y, p3.x, p3.y)
               dd == Quot(curvature * Min2(Min2(d1, d2), Quot(Min2(d1, d2), 2)), 100)
               q == CASE a1 = a2 -> addSegment(addSegment(p, a1, d1 - dd, 100), a2, d2, 100)
           IN  SplineCurve(IF i = Len(array_points) - 2 THEN endPlot(q, a2, 100) ELSE q,
                           array_points, curvature, i + 1)
      ELSE SplineCurve(p, array_points, curvature, i + 1)

\* new Spline(array_points, curvature): the plot sp.p and the origin that
\* setOrigin stores in it (sp.p.origin).
Spline(array_points, curvature) ==
    CASE curvature = 0 ->
        [p |-> SplineSegments(NewPlotObj("segments"), array_points, 1),
         origin |-> IF Len(array_points) > 0 THEN <<array_points[1]>> ELSE <<>>]
      [] curvature > 0 ->
        [p |-> SplineCurve(NewPlotObj("curve"), array_points, curvature, 1),
         origin |-> IF Len(array_points) > 0 THEN <<array_points[1]>> ELSE <<>>]

\* Plot.draw(x, y, scale): a plot with an origin is drawn there, at scale 1.
plotDraw(D, env, p, origin, x, y, scale) ==
    IF origin # <<>>
      THEN flowShape(D, env, p, origin[1].x, origin[1].y, 1)
      ELSE flowShape(D, env, p, x, y, scale)

\* The recorder at rest: _strokeArray = false.
NoRec == [mode |-> "idle", pts |-> <<>>, plot |-> NoPlot,
          curvature |-> 0, x |-> 0, y |-> 0]

-----------------------------------------------------------------------------
(* Brush, fill and drawing calls as actions *)

StrokeColors == {"red"}
FillColors == {"blue"}
WeightInputs == {0, 1, 2}
\* Lines a caller draws, one of them across the edge of the area isInCanvas
\* accepts; the long one is drawn with the pen at weight 1.
LineInputs(name, w) ==
    {<<0, 0, 0, Px(2)>>, <<Px(1), 0, 0, 0>>, <<0, 0, 0, 0>>, <<Px(137), 0, Px(139), 0>>}
        \cup (IF name = "pen" /\ w = 1 THEN {<<0, 0, Px(100), 0>>} ELSE {})
FlowLineInputs == {<<0, 0, Px(2), 0>>, <<0, 0, Px(2), 90>>, <<Px(1), Px(1), Px(1), 180>>,
                   <<Px(249), 0, Px(2), 0>>}
HatchDists == {0, 50}
HatchAngles == {0, 90}
HatchPoly == <<Pt(0, 0), Pt(Px(2), 0), Pt(Px(2), Px(1)), Pt(0, Px(1))>>
RectInputs == {<<0, 0, Px(2), Px(1)>>}

\* Plots handed to flowShape: one at full pressure, one at pressure 0.
BrushPlots ==
    {endPlot(addSegment(NewPlotObj("segments"), 0, Px(2), 100), 0, 100),
     endPlot(addSegment(NewPlotObj("curve"), 90, Px(1), 0), 90, 0)}

\* The report of a drawing call that ended in the drawing state D.
Report(op, args, D, built) ==
    [op |-> op, args |-> args, tips |-> D.tips, evals |-> D.evals,
     strokes |-> D.strokes, blends |-> D.blends, fills |-> D.fills,
     lines |-> D.lines, steps |-> D.steps, marks |-> D.marks, pos |-> D.position, log |-> D.m.log, hung |-> D.hung, error |-> D.error, built |-> built]

\* The state a drawing call leaves: the system loaded, the mask, the report.
Drawn(s, op, args, D) ==
    /\ isReady' = TRUE
    /\ SetFF(s.ff)
    /\ bList' = s.list
    /\ mix' = [open |-> D.m.open, dirty |-> D.m.dirty]
    /\ out' = Report(op, args, D, NoPlot)

\* pick(brushName)
Pick(brushName) ==
    /\ Running
    /\ B' = [B EXCEPT !.name = brushName]
    /\ out' = Quiet
    /\ UNCHANGED <<plotVars, libVars, fieldVars, bList, F, mix, rec>>

\* stroke(color)
Stroke(color) ==
    /\ Running
    /\ B' = [B EXCEPT !.c = color, !.isActive = TRUE]
    /\ out' = Quiet
    /\ UNCHANGED <<plotVars, libVars, fieldVars, bList, F, mix, rec>>

\* strokeWeight(weight)
StrokeWeight(weight) ==
    /\ Running
    /\ B' = [B EXCEPT !.w = weight]
    /\ out' = Quiet
    /\ UNCHANGED <<plotVars, libVars, fieldVars, bList, F, mix, rec>>

\* noStroke()
NoStroke ==
    /\ Running
    /\ B' = [B EXCEPT !.isActive = FALSE]
    /\ out' = Quiet
    /\ UNCHANGED <<plotVars, libVars, fieldVars, bList, F, mix, rec>>

\* fill(color)
SetFill(color) ==
    /\ Running
    /\ F' = [isActive |-> TRUE, c |-> color]
    /\ out' = Quiet
    /\ UNCHANGED <<plotVars, libVars, fieldVars, B, bList, mix, rec>>

\* noFill()
NoFill ==
    /\ Running
    /\ F' = [F EXCEPT !.isActive = FALSE]
    /\ out' = Quiet
    /\ UNCHANGED <<plotVars, libVars, fieldVars, B, bList, mix, rec>>

\* line(x1, y1, x2, y2)
Line(a, draws) ==
    /\ Running
    /\ LET s == _ensureReady(Sys, isReady, draws)
       IN  Drawn(s, "line", a, line(D0(s.m), Env(s), a[1], a[2], a[3], a[4]))
    /\ UNCHANGED <<ffActive, plotVars, libVars, B, F, rec>>

\* flowLine(x, y, length, dir)
FlowLine(a, draws) ==
    /\ Running
    /\ LET s == _ensureReady(Sys, isReady, draws)
       IN  Drawn(s, "flowLine", a, flowLine(D0(s.m), Env(s), a[1], a[2], a[3], a[4]))
    /\ UNCHANGED <<ffActive, plotVars, libVars, B, F, rec>>

\* flowShape(p, 0, 0, 1)
\* brush.flowShape(p, x, y, scale)
FlowShapeAt(p, x, y, scale, draws) ==
    /\ Running
    /\ LET s == _ensureReady(Sys, isReady, draws)
       IN  Drawn(s, "flowShape", <<p.length, x, y, scale>>,
                 flowShape(D0(s.m), Env(s), p, x, y, scale))
    /\ UNCHANGED <<ffActive, plotVars, libVars, B, F, rec>>

FlowShape(p, draws) == FlowShapeAt(p, 0, 0, 1, draws)

\* hatch(polygon, dist, angle)
Hatch(d, a, draws) ==
    /\ Running
    /\ LET s == _ensureReady(Sys, isReady, draws)
       IN  Drawn(s, "hatch", <<d, a>>, hatch(D0(s.m), Env(s), HatchPoly, d, a))
    /\ UNCHANGED <<ffActive, plotVars, libVars, B, F, rec>>

\* rect(x, y, w, h)
Rect(a, draws) ==
    /\ Running
    /\ LET s == _ensureReady(Sys, isReady, draws)
       IN  Drawn(s, "rect", a, drawRectangle(D0(s.m), Env(s), a[1], a[2], a[3], a[4]))
    /\ UNCHANGED <<ffActive, plotVars, libVars, B, F, rec>>

\* clip(clippingRegion)
Clip(clippingRegion) ==
    /\ Running
    /\ B' = [B EXCEPT !.cr = [on |-> TRUE, r |-> clippingRegion]]
    /\ out' = Quiet
    /\ UNCHANGED <<plotVars, libVars, fieldVars, bList, F, mix, rec>>

\* Clipping regions, and lines that start outside one and enter it, that leave
\* it, and that cross the edge of the area isInCanvas accepts.
ClipInputs == {<<Px(1), 0, Px(3), Px(1)>>, <<0, 0, Px(1), Px(1)>>}
ClipLines == {<<0, 0, Px(4), 0>>, <<0, 0, 0, Px(2)>>, <<Px(137), 0, Px(139), 0>>}
ClipWeights == {1, 2}

NextClip ==
    \/ \E n \in BrushNames : Pick(n)
    \/ \E w \in ClipWeights : StrokeWeight(w)
    \/ \E r \in ClipInputs : Clip(r)
    \/ \E n \in UserFields : AddField(n, NoDraws, 1)
    \/ \E n \in UserFields : SelectField(n, NoDraws)
    \/ DisableField
    \/ \E a \in ClipLines : Line(a, NoDraws)
    \/ \E a \in FlowLineInputs : FlowLine(a, NoDraws)

\* Plots drawn by flowShape at a place and a scale: a straight one and one of
\* two segments with different pressures, at the origin and across the edge of
\* the area isInCanvas accepts.
ShapePlots ==
    {endPlot(addSegment(NewPlotObj("segments"), 0, Px(3), 100), 0, 100),
     endPlot(addSegment(addSegment(NewPlotObj("segments"), 0, Px(1), 100), 0, Px(1), 50),
             0, 50)}
ShapePlaces == {<<0, 0>>, <<Px(136), 0>>}
ShapeScales == {1, 2}

\* The specification of flowShape: brushes, weights, fields and plots drawn
\* at a place and a scale.
NextFlowShape ==
    \/ \E n \in BrushNames : Pick(n)
    \/ \E w \in ClipWeights : StrokeWeight(w)
    \/ \E n \in UserFields : AddField(n, NoDraws, 1)
    \/ \E n \in UserFields : SelectField(n, NoDraws)
    \/ DisableField
    \/ \E p \in ShapePlots : \E a \in ShapePlaces : \E sc \in ShapeScales :
          FlowShapeAt(p, a[1], a[2], sc, NoDraws)

NextBrush ==
    \/ \E n \in BrushNames : Pick(n)
    \/ \E c \in StrokeColors : Stroke(c)
    \/ \E w \in WeightInputs : StrokeWeight(w)
    \/ NoStroke
    \/ \E c \in FillColors : SetFill(c)
    \/ NoFill
    \/ \E n \in UserFields : AddField(n, NoDraws, 1)
    \/ \E n \in UserFields : SelectField(n, NoDraws)
    \/ DisableField
    \/ \E a \in LineInputs(B.name, B.w) : Line(a, NoDraws)
    \/ \E a \in FlowLineInputs : FlowLine(a, NoDraws)
    \/ \E p \in BrushPlots : FlowShape(p, NoDraws)
    \/ \E d \in HatchDists, a \in HatchAngles : Hatch(d, a, NoDraws)
    \/ \E a \in RectInputs : Rect(a, NoDraws)

-----------------------------------------------------------------------------
(* The shape and stroke recorder as actions *)

MaxPts == 3                        \* vertices recorded in one shape
VertexInputs == {Pt(0, 0), Pt(Px(10), 0), Pt(Px(10), Px(10)), Pt(0, Px(10))}
SplineInputs == {<<Pt(0, 0), Pt(Px(10), 0), Pt(Px(10), Px(10))>>}
CloseInputs == {"CLOSE", "undefined"}
StrokeTypes == {"segments"}
StrokeOrigins == {<<0, 0>>}
MoveAngles == {0, 90}
MoveLengths == {Px(1)}
MovePressures == {100}
ShapeBrushes == {"HB", "marker"}

\* The model's trigonometry covers pairs of points on one axis.
OnAxis(p1, p2) == p1.x = p2.x \/ p1.y = p2.y

\* pick(brushName), in the recorder's runs
PickShape(brushName) == brushName \in ShapeBrushes /\ Pick(brushName)

\* beginShape(curvature)
BeginShape(curvature, draws) ==
    /\ Running
    /\ isReady' = TRUE
    /\ SetSys(_ensureReady(Sys, isReady, draws))
    /\ rec' = [NoRec EXCEPT !.mode = "shape", !.curvature = curvature]
    /\ out' = Quiet
    /\ UNCHANGED <<ffActive, plotVars, libVars, B, F>>

\* A recorder call that threw a TypeError: `_strokeArray` has no such method.
Thrown(op, args) == [NoOut(op, args) EXCEPT !.error = TRUE]

\* vertex(x, y): `_strokeArray.push(...)`; false and a Plot have no push.
Vertex(v) ==
    /\ Running
    /\ IF rec.mode = "shape"
         THEN /\ Len(rec.pts) < MaxPts
              /\ Len(rec.pts) > 0 => OnAxis(rec.pts[Len(rec.pts)], v)
              /\ rec' = [rec EXCEPT !.pts = Append(@, v)]
              /\ out' = Quiet
         ELSE /\ rec' = rec
              /\ out' = Thrown("vertex", <<v>>)
    /\ UNCHANGED <<plotVars, libVars, fieldVars, B, bList, F, mix>>

\* The rest of endShape(a) once the Spline sp is built from the vertices pts.
\* With the fill on, `sp.origin[0]` is evaluated first: setOrigin stored the
\* origin in sp.p, sp.origin is undefined and the call throws there.
EndShapeWith(pts, sp) ==
    IF F.isActive
      THEN /\ rec' = [rec EXCEPT !.pts = pts]
           /\ out' = [NoOut("endShape", pts) EXCEPT !.error = TRUE, !.built = sp.p]
           /\ UNCHANGED <<isReady, ffCurrent, ffList, ffShared, bList, mix>>
      ELSE IF B.isActive
        THEN \E s \in {_ensureReady(Sys, isReady, NoDraws)} :
             \E D \in {plotDraw(D0(s.m), Env(s), sp.p, sp.origin, 0, 0, 1)} :
                 /\ rec' = IF D.hung THEN [rec EXCEPT !.pts = pts] ELSE NoRec
                 /\ isReady' = TRUE
                 /\ SetFF(s.ff)
                 /\ bList' = s.list
                 /\ mix' = [open |-> D.m.open, dirty |-> D.m.dirty]
                 /\ out' = Report("endShape", pts, D, sp.p)
        ELSE /\ rec' = NoRec
             /\ out' = [NoOut("endShape", pts) EXCEPT !.built = sp.p]
             /\ UNCHANGED <<isReady, ffCurrent, ffList, ffShared, bList, mix>>

\* endShape(a)
EndShape(a) ==
    /\ Running
    /\ rec.mode = "shape"
    /\ Len(rec.pts) > 0 /\ Len(rec.pts) <= MaxPts
    /\ a = "CLOSE" => OnAxis(rec.pts[Len(rec.pts)], rec.pts[1])
    /\ \E pts \in {IF a = "CLOSE" THEN Append(rec.pts, rec.pts[1]) ELSE rec.pts} :
           EndShapeWith(pts, Spline(pts, rec.curvature))
    /\ UNCHANGED <<ffActive, plotVars, libVars, B, F>>

\* spline(array_points, curvature)
DrawSplineWith(array_points, curvature, draws) ==
    /\ Running
    /\ \E s \in {_ensureReady(Sys, isReady, draws)},
          sp \in {Spline(array_points, curvature)} :
       \E D \in {plotDraw(D0(s.m), Env(s), sp.p, sp.origin, 0, 0, 1)} :
           /\ isReady' = TRUE
           /\ SetFF(s.ff)
           /\ bList' = s.list
           /\ mix' = [open |-> D.m.open, dirty |-> D.m.dirty]
           /\ out' = Report("spline", array_points, D, sp.p)
    /\ UNCHANGED <<ffActive, plotVars, libVars, B, F, rec>>

\* spline(array_points, 0)
DrawSpline(array_points, draws) == DrawSplineWith(array_points, 0, draws)

\* Point lists and curvatures (1/100) of the splines drawn: two points, three
\* in a row, and a corner, which is drawn with curvature 0 only.
SplineLists ==
    {<<Pt(0, 0), Pt(Px(10), 0)>>,
     <<Pt(0, 0), Pt(0, Px(5))>>,
     <<Pt(0, 0), Pt(Px(5), 0), Pt(Px(10), 0)>>,
     <<Pt(0, 0), Pt(Px(10), 0), Pt(Px(10), Px(10))>>}
Curvatures == {0, 50, 100}
InARow(array_points) ==
    \A i \in 1 .. Len(array_points) - 2 :
        _calculateAngle(array_points[i].x, array_points[i].y,
                        array_points[i + 1].x, array_points[i + 1].y)
          = _calculateAngle(array_points[i + 1].x, array_points[i + 1].y,
                            array_points[i + 2].x, array_points[i + 2].y)

\* The specification of spline: brushes, weights, fields and splines.
NextSpline ==
    \/ \E n \in BrushNames : Pick(n)
    \/ \E w \in ClipWeights : StrokeWeight(w)
    \/ \E n \in UserFields : AddField(n, NoDraws, 1)
    \/ \E n \in UserFields : SelectField(n, NoDraws)
    \/ DisableField
    \/ \E pts \in SplineLists, c \in Curvatures :
          (c > 0 => InARow(pts)) /\ DrawSplineWith(pts, c, NoDraws)

\* beginStroke(type, x, y)
BeginStroke(type, o, draws) ==
    /\ Running
    /\ isReady' = TRUE
    /\ SetSys(_ensureReady(Sys, isReady, draws))
    /\ rec' = [NoRec EXCEPT !.mode = "stroke", !.plot = NewPlotObj(type),
                            !.x = o[1], !.y = o[2]]
    /\ out' = Quiet
    /\ UNCHANGED <<ffActive, plotVars, libVars, B, F>>

\* move(angle, length, pressure): `_strokeArray.addSegment(...)`; false and an
\* array have no addSegment.
Move(a, len, pr) ==
    /\ Running
    /\ IF rec.mode = "stroke"
         THEN /\ Len(rec.plot.segments) < MaxSegs
              /\ rec' = [rec EXCEPT !.plot = addSegment(@, a, len, pr)]
              /\ out' = Quiet
         ELSE /\ rec' = rec
              /\ out' = Thrown("move", <<a, len, pr>>)
    /\ UNCHANGED <<plotVars, libVars, fieldVars, B, bList, F, mix>>

\* endStroke(angle, pressure)
EndStroke(a, pr) ==
    /\ Running
    /\ rec.mode = "stroke"
    /\ \E s \in {_ensureReady(Sys, isReady, NoDraws)}, p \in {endPlot(rec.plot, a, pr)} :
       \E D \in {plotDraw(D0(s.m), Env(s), p, <<>>, rec.x, rec.y, 1)} :
           /\ rec' = IF D.hung THEN [rec EXCEPT !.plot = p] ELSE NoRec
           /\ Drawn(s, "endStroke", <<a, pr>>, D)
    /\ UNCHANGED <<ffActive, plotVars, libVars, B, F>>

NextShape ==
    \/ \E n \in BrushNames : PickShape(n)
    \/ \E c \in StrokeColors : Stroke(c)
    \/ NoStroke
    \/ \E c \in FillColors : SetFill(c)
    \/ NoFill
    \/ BeginShape(0, NoDraws)
    \/ \E v \in VertexInputs : Vertex(v)
    \/ \E a \in CloseInputs : EndShape(a)
    \/ \E pts \in SplineInputs : DrawSpline(pts, NoDraws)
    \/ \E t \in StrokeTypes, o \in StrokeOrigins : BeginStroke(t, o, NoDraws)
    \/ \E a \in MoveAngles, len \in MoveLengths, pr \in MovePressures : Move(a, len, pr)
    \/ \E a \in MoveAngles, pr \in MovePressures : EndStroke(a, pr)

-----------------------------------------------------------------------------
(* A Polygon object that lives across calls, with its intersection cache *)

\* The polygons a caller makes: a rectangle, a triangle and a diamond, all
\* convex, with the corner of their bounding box at (0, 0).
PolyArrays ==
    {HatchPoly,
     <<Pt(Px(1), 0), Pt(Px(2), Px(1)), Pt(0, Px(1))>>,
     <<Pt(Px(1), 0), Pt(Px(2), Px(1)), Pt(Px(1), Px(2)), Pt(0, Px(1))>>}

\* `_intersectionCache`: the entries [key, points]; a key is the text of the
\* line's four coordinates, so it stands for the line with its direction;
\* undefined is the empty cache.
NoCache == {}

Cached(cache, ln) == \E e \in cache : e.key = ln

CacheGet(cache, ln) == (CHOOSE e \in cache : e.key = ln).points

\* `this._intersectionCache[cacheKey] = points`
CachePut(cache, ln, points) ==
    {e \in cache : e.key # ln} \cup {[key |-> ln, points |-> points]}

\* Polygon.intersect(line): what it returns ...
intersectPoints(cache, array, ln) ==
    IF Cached(cache, ln) THEN CacheGet(cache, ln) ELSE intersect(array, ln)

\* ... and the cache it leaves.  The array returned is the array cached.
intersectCache(cache, array, ln) ==
    IF Cached(cache, ln) THEN cache ELSE CachePut(cache, ln, intersect(array, ln))

\* R.random(-1, 1), in hundredths: the n-th draw of a call, from the draws u
JitterAt(u, n) == u[((n - 1) % Len(u)) + 1]

\* `dd[i].x += r * dist * R.random(-1, 1); dd[i].y += ...`
Jitter(pt, r, dist1, u, n) ==
    Pt(pt.x + Quot(r * dist1 * JitterAt(u, n), 100),
       pt.y + Quot(r * dist1 * JitterAt(u, n + 1), 100))

\* `.flat().sort(...)`: the places of c's points in sorted order (the sort is
\* stable), and the sorted place of the point at q.
SortIdx(c) ==
    SortSeq([i \in 1 .. Len(c) |-> i],
            LAMBDA i, j : PtBefore(c[i], c[j]) \/ (c[i] = c[j] /\ i < j))

SortPos(idx, q) == CHOOSE pos \in 1 .. Len(idx) : idx[pos] = q

\* The points of one probe line after the drawing loop: with rand set, the
\* loop adds a random offset to the points it pairs up.  They are the objects
\* of the cached array, which the sorted copy shares.
JitterDots(c, idx, r, dist1, u, k) ==
    [q \in 1 .. Len(c) |->
        IF r # 0 /\ SortPos(idx, q) <= 2 * (Len(c) \div 2)
          THEN Jitter(c[q], r, dist1, u, k + 2 * (SortPos(idx, q) - 1) + 1)
          ELSE c[q]]

Sorted(c, idx) == [pos \in 1 .. Len(c) |-> c[idx[pos]]]

\* One probe line of B.hatch with the rand option: its dots from the polygon's
\* cache, the offsets, the lines drawn.  S holds the drawing state, the cache
\* and the number of random draws made.
HatchRandLine(S, env, ln, c, c2, r) ==
    [D |-> HatchPairs(S.D, env, Sorted(c2, SortIdx(c)), 1),
     cache |-> CachePut(S.cache, ln, c2),
     k |-> S.k + (IF r # 0 THEN 4 * (Len(c) \div 2) ELSE 0)]

HatchRandDots(S, env, ln, c, r, dist1, u) ==
    HatchRandLine(S, env, ln, c, JitterDots(c, SortIdx(c), r, dist1, u, S.k), r)

RECURSIVE HatchRandFrom(_, _, _, _, _, _, _, _, _)
HatchRandFrom(S, env, array, dist1, ang, r, u, i, n) ==
    IF i >= n THEN S
    ELSE HatchRandFrom(
             HatchRandDots(S, env, linea(array, dist1, ang, i),
                           intersectPoints(S.cache, array, linea(array, dist1, ang, i)),
                           r, dist1, u),
             env, array, dist1, ang, r, u, i + 1, n)

\* B.hatch(polygon, dist, angle, {rand: r}) on a Polygon object with its cache
hatchRand(D, env, array, cache, dist1, angle1, r, u) ==
    IF ProbeDiverges(array, dist1, JsMod(angle1, 180))
      THEN [D |-> [D EXCEPT !.hung = TRUE],
            cache |-> intersectCache(cache, array, linea(array, dist1, JsMod(angle1, 180), 0)),
            k |-> 0]
      ELSE HatchRandFrom([D |-> D, cache |-> cache, k |-> 0], env, array, dist1,
                         JsMod(angle1, 180), r, u, 0,
                         Len(ProbeLoop(array, dist1, JsMod(angle1, 180), 0)))

\* Lines a caller asks about, each in both directions; the first four are
\* probe lines of the hatch.
Reverse(ln) == <<ln[2], ln[1]>>
ForwardLines ==
    {linea(HatchPoly, 50, 0, 0), linea(HatchPoly, 50, 0, 1),
     <<Pt(Px(1), 0), Pt(Px(1), Px(1))>>}
QueryLines == ForwardLines \cup {Reverse(ln) : ln \in ForwardLines}
RandInputs == {0, 1}
JitterDraws == {<<50, 50>>, <<-50, 50>>}
PolyHatchDists == {50, 100}

\* How far a cached point has been moved from where the intersection is.
MaxDrift == 25

Drift(a, b) == Abs(a.x - b.x) + Abs(a.y - b.y)

Drifted(cache, array) ==
    \E e \in cache : \E q \in 1 .. Len(e.points) :
        Drift(e.points[q], intersect(array, e.key)[q]) >= MaxDrift

\* polygon = new Polygon(array): a new object, without a cache
PolyNew(array) ==
    /\ Running
    /\ polygon' = [a |-> array, cache |-> NoCache]
    /\ out' = Quiet
    /\ UNCHANGED <<plotVars, fieldVars, B, bList, F, mix, rec, tipVars, pol>>

\* polygon.intersect(line); the report holds the line and the points returned
PolyIntersect(ln) ==
    /\ Running
    /\ polygon' = [polygon EXCEPT !.cache = intersectCache(@, polygon.a, ln)]
    /\ out' = NoOut("intersect", <<ln, intersectPoints(polygon.cache, polygon.a, ln)>>)
    /\ UNCHANGED <<plotVars, fieldVars, B, bList, F, mix, rec, tipVars, pol>>

\* hatch(polygon, dist, 0, {rand: r})
PolyHatch(d, r, u, draws) ==
    /\ Running
    /\ r # 0 => ~Drifted(polygon.cache, polygon.a)
    /\ \E s \in {_ensureReady(Sys, isReady, draws)} :
       \E H \in {hatchRand(D0(s.m), Env(s), polygon.a, polygon.cache, d, 0, r, u)} :
           /\ Drawn(s, "hatch", <<d, 0, r>>, H.D)
           /\ polygon' = [polygon EXCEPT !.cache = H.cache]
    /\ UNCHANGED <<ffActive, plotVars, B, F, rec, tipVars, pol>>

\* B.line for any two points.  The tips of a stroke are followed along the
\* axes only; off the axes the call, its stroke and its mask session are.
lineAny(D, env, x1, y1, x2, y2) ==
    IF x1 = x2 \/ y1 = y2 THEN line(D, env, x1, y1, x2, y2)
    ELSE IF D.hung THEN D
    ELSE IF spacing(env) = 0 THEN [D EXCEPT !.hung = TRUE]
    ELSE drawEnd(pushState([D EXCEPT !.lines = Append(@, <<x1, y1, x2, y2>>),
                                     !.strokes = @ + 1,
                                     !.blends = IF env.p.blend THEN @ + 1 ELSE @],
                           env), env)

\* The first loop of B.hatch on a Polygon object: dots[i] for the n probe
\* lines, and the cache the n intersect calls leave.
ProbeDots(cache, array, dist1, ang, n) ==
    [j \in 1 .. n |->
        SortSeq(intersectPoints(cache, array, linea(array, dist1, ang, j - 1)), PtBefore)]

RECURSIVE ProbeCache(_, _, _, _, _)
ProbeCache(cache, array, dist1, ang, n) ==
    IF n = 0 THEN cache
    ELSE intersectCache(ProbeCache(cache, array, dist1, ang, n - 1), array,
                        linea(array, dist1, ang, n - 1))

\* `gdots`: the probe lines that have dots
HasDots(dd) == Len(dd) > 0
gdots(dots) == SelectSeq(dots, HasDots)

\* `B.line(gdots[j - 1][1].x, gdots[j - 1][1].y, dd[i].x, dd[i].y)`: a
\* previous line of one dot has no gdots[j - 1][1], and the call throws.
connector(D, env, prev, pt) ==
    IF D.hung THEN D
    ELSE IF Len(prev) < 2 THEN [D EXCEPT !.error = TRUE]
    ELSE lineAny(D, env, prev[2].x, prev[2].y, pt.x, pt.y)

\* The drawing loops of B.hatch with the continuous option and rand off.
RECURSIVE ContPairs(_, _, _, _, _)
ContPairs(D, env, g, j, i) ==
    IF D.error \/ ~(i < Len(g[j])) THEN D
    ELSE ContPairs(IF j > 1
                     THEN connector(lineAny(D, env, g[j][i].x, g[j][i].y,
                                            g[j][i + 1].x, g[j][i + 1].y),
                                    env, g[j - 1], g[j][i])
                     ELSE lineAny(D, env, g[j][i].x, g[j][i].y,
                                  g[j][i + 1].x, g[j][i + 1].y),
                   env, g, j, i + 2)

RECURSIVE ContLines(_, _, _, _)
ContLines(D, env, g, j) ==
    IF D.error \/ j > Len(g) THEN D
    ELSE ContLines(ContPairs(D, env, g, j, 1), env, g, j + 1)

\* B.hatch(polygon, dist, angle, {continuous: true}) on a Polygon object
hatchContinuous(D, env, array, cache, dist1, angle1) ==
    IF ProbeDiverges(array, dist1, JsMod(angle1, 180))
      THEN [D |-> [D EXCEPT !.hung = TRUE],
            cache |-> intersectCache(cache, array, linea(array, dist1, JsMod(angle1, 180), 0))]
      ELSE [D |-> ContLines(D, env,
                            gdots(ProbeDots(cache, array, dist1, JsMod(angle1, 180),
                                            Len(ProbeLoop(array, dist1, JsMod(angle1, 180), 0)))),
                            1),
            cache |-> ProbeCache(cache, array, dist1, JsMod(angle1, 180),
                                 Len(ProbeLoop(array, dist1, JsMod(angle1, 180), 0)))]

\* hatch(polygon, dist, 0, {continuous: true})
PolyHatchContinuous(d, draws) ==
    /\ Running
    /\ \E s \in {_ensureReady(Sys, isReady, draws)} :
       \E H \in {hatchContinuous(D0(s.m), Env(s), polygon.a, polygon.cache, d, 0)} :
           /\ Drawn(s, "hatch", <<d, 0, 0, TRUE>>, H.D)
           /\ polygon' = [polygon EXCEPT !.cache = H.cache]
    /\ UNCHANGED <<ffActive, plotVars, B, F, rec, tipVars, pol>>

\* Polygons hatched with the continuous option: the rectangle, the triangle
\* and one that is not convex, whose lower probe lines cross it four times.
ContArrays ==
    {HatchPoly,
     <<Pt(Px(1), 0), Pt(Px(2), Px(1)), Pt(0, Px(1))>>,
     <<Pt(0, 0), Pt(Px(3), 0), Pt(Px(3), Px(2)), Pt(Px(2), Px(2)),
       Pt(Px(2), Px(1)), Pt(Px(1), Px(1)), Pt(Px(1), Px(2)), Pt(0, Px(2))>>}
ContDists == {50, 100, 150}

NextCont ==
    \/ \E n \in BrushNames : Pick(n)
    \/ \E array \in ContArrays : PolyNew(array)
    \/ \E ln \in ForwardLines : PolyIntersect(ln)
    \/ \E d \in ContDists : PolyHatchContinuous(d, NoDraws)

InitPoly == polygon = [a |-> HatchPoly, cache |-> NoCache]

NextPoly ==
    \/ \E array \in PolyArrays : PolyNew(array)
    \/ \E ln \in QueryLines : PolyIntersect(ln)
    \/ \E d \in PolyHatchDists, r \in RandInputs, u \in JitterDraws :
           PolyHatch(d, r, u, NoDraws)

-----------------------------------------------------------------------------
(* FillPolygon: the polygon of the watercolour fill and its growth *)
\* Coordinates are in 1/100 px, multipliers in 1/1000, and the random draws of
\* one grow call are a record dr: t (the lerp amount, in 1/100), f (the length
\* factor randomGaussian(0.5, 0.2) * random(0.6, 1.4), in 1/100) and g (the
\* draw of changeModifier, in 1/1000).  The new vertex is pushed out at a right
\* angle, the draw randomGaussian(0, 0.4) = 0 of the rotation.

MaxGrows == 2

\* F.calcCenter()
calcCenter(v) ==
    Pt(Quot(SumSeq([i \in 1 .. Len(v) |-> v[i].x]), Len(v)),
       Quot(SumSeq([i \in 1 .. Len(v) |-> v[i].y]), Len(v)))

\* new FillPolygon(_v, _m, _center)
FillPolygon(_v, _m, _center) == [v |-> _v, m |-> _m, midP |-> _center]

\* `growthFactor >= 0.2 ? Math.floor(growthFactor * this.v.length) : this.v.length`,
\* growthFactor in 1/100 (grow() without an argument compares undefined, which
\* is not >= 0.2 either)
verticesFloor(growthFactor, n) == (growthFactor * n) \div 100

verticesToProcess(growthFactor, n) ==
    IF growthFactor >= 20 THEN (growthFactor * n) \div 100 ELSE n

\* changeModifier(modifier)
changeModifier(modifier, g) == modifier + Quot((g - 500) * 100, 1000)

\* `let mod = (growthFactor === 0.1) ? 0.75 : this.m[i]; if (degrow) mod *= -0.5`
growMod(p, growthFactor, degrow, i) ==
    IF degrow
      THEN Quot((IF growthFactor = 10 THEN 750 ELSE p.m[i]) * (-5), 10)
      ELSE (IF growthFactor = 10 THEN 750 ELSE p.m[i])

\* The new vertex between currentVertex and nextVertex
growVertex(cur, nxt, mod, dr) ==
    Pt(cur.x + Quot((nxt.x - cur.x) * dr.t, 100)
             + Quot((nxt.y - cur.y) * dr.f * mod, 100 * 1000),
       cur.y + Quot((nxt.y - cur.y) * dr.t, 100)
             - Quot((nxt.x - cur.x) * dr.f * mod, 100 * 1000))

\* The loop of grow without the push of the new vertex.
newVertsKept(p, growthFactor, degrow, dr, n) == [j \in 1 .. n |-> p.v[j]]

\* The loop of grow over n vertices: newVerts holds vertex i and the new
\* vertex after it, newMods the changed modifier of each.
newVerts(p, growthFactor, degrow, dr, n) ==
    [j \in 1 .. 2 * n |->
        IF j % 2 = 1 THEN p.v[(j + 1) \div 2]
        ELSE growVertex(p.v[j \div 2], p.v[((j \div 2) % n) + 1],
                        growMod(p, growthFactor, degrow, j \div 2), dr)]

newMods(p, growthFactor, degrow, dr, n) ==
    [j \in 1 .. 2 * n |->
        changeModifier(growMod(p, growthFactor, degrow, (j + 1) \div 2), dr.g)]

\* FillPolygon.grow(growthFactor, degrow)
grow(p, growthFactor, degrow, dr) ==
    FillPolygon(
        newVerts(p, growthFactor, degrow, dr, verticesToProcess(growthFactor, Len(p.v))),
        newMods(p, growthFactor, degrow, dr, verticesToProcess(growthFactor, Len(p.v))),
        p.midP)

FillArrays ==
    {<<Pt(Px(1), 0), Pt(Px(2), Px(1)), Pt(0, Px(1))>>,
     <<Pt(0, 0), Pt(Px(2), 0), Pt(Px(2), Px(2)), Pt(0, Px(2))>>}
BleedInputs == {70, 90}
GrowthFactors == {0, 10, 40, 50, 60}
GrowDraws == {[t |-> 50, f |-> 50, g |-> 500], [t |-> 90, f |-> 100, g |-> 600]}

\* F.fill(polygon): new FillPolygon(this.v, this.m, this.calcCenter())
FillNew(array, b) ==
    /\ Running
    /\ pol' = [obj |-> FillPolygon(array, [i \in 1 .. Len(array) |-> b],
                                   calcCenter(array)),
               grows |-> 0]
    /\ out' = NoOut("FillPolygon", <<Len(array), b>>)
    /\ UNCHANGED <<plotVars, fieldVars, B, bList, F, mix, rec, tipVars, polygon>>

\* pol = pol.grow(growthFactor, degrow); the report holds the vertex count of
\* the polygon grown.
Grow(growthFactor, degrow, dr) ==
    /\ Running
    /\ pol.grows < MaxGrows
    /\ pol' = [obj |-> grow(pol.obj, growthFactor, degrow, dr), grows |-> pol.grows + 1]
    /\ out' = NoOut("grow", <<growthFactor, degrow, Len(pol.obj.v)>>)
    /\ UNCHANGED <<plotVars, fieldVars, B, bList, F, mix, rec, tipVars, polygon>>

InitGrow ==
    pol = [obj |-> FillPolygon(HatchPoly, [i \in 1 .. Len(HatchPoly) |-> 70],
                               calcCenter(HatchPoly)),
           grows |-> 0]

NextGrow ==
    \/ \E array \in FillArrays, b \in BleedInputs : FillNew(array, b)
    \/ \E gf \in GrowthFactors, degrow \in BOOLEAN, dr \in GrowDraws : Grow(gf, degrow, dr)

-----------------------------------------------------------------------------
\* T: the registry of image tips.  An entry of T.tips is one of
\*   "absent"  no key for the source,
\*   "false"   the value T.add stores before the picture has arrived,
\*   "dataURL" the string imageToWhite returns,
\*   "image"   the p5.Image loadImage makes of that data URL,
\*   "noImage" the p5.Image loadImage makes of anything else (false, or an
\*             object that is already a p5.Image): it has no picture to load.
TipSrcs == {"a.png", "b.png"}

MaxAdds == 2

\* loadImage(v) of p5, by what it is given
loadImage(v) == IF v = "dataURL" THEN "image" ELSE "noImage"

\* T.imageToWhite(image): a data URL (a string)
imageToWhite == "dataURL"

\* T.tips.size
TipsSize == Cardinality({src \in TipSrcs : tips[src] # "absent"})

\* T.load(): every key is replaced by loadImage of what it holds
TLoadAll == [src \in TipSrcs |->
                IF tips[src] = "absent" THEN "absent" ELSE loadImage(tips[src])]

\* B.add(name, {type: "image", image: {src}}) -> T.add(src)
TAdd(src) ==
    /\ pending[src] < MaxAdds
    /\ tips' = [tips EXCEPT ![src] = "false"]
    /\ pending' = [pending EXCEPT ![src] = @ + 1]
    /\ out' = NoOut("add", <<src>>)
    /\ UNCHANGED <<plotVars, fieldVars, B, bList, F, mix, rec, polygon, pol>>

\* myImage.onload of one Image object made by T.add(src)
TOnload(src) ==
    /\ pending[src] > 0
    /\ tips' = [tips EXCEPT ![src] = imageToWhite]
    /\ pending' = [pending EXCEPT ![src] = @ - 1]
    /\ out' = NoOut("onload", <<src>>)
    /\ UNCHANGED <<plotVars, fieldVars, B, bList, F, mix, rec, polygon, pol>>

\* preloadBrushAssets() -> T.load()
TLoad ==
    /\ tips' = IF TipsSize = 0 THEN tips ELSE TLoadAll
    /\ out' = NoOut("preload", <<>>)
    /\ UNCHANGED <<plotVars, fieldVars, B, bList, F, mix, rec, pending, polygon, pol>>

\* b.tip() of an image brush: _r.image(T.tips.get(src), ...) draws the entry;
\* anything that is not a p5.Image makes image() throw.
TTip(src) ==
    /\ tips[src] # "absent"
    /\ out' = [NoOut("tip", <<src>>) EXCEPT
                  !.error = tips[src] \notin {"image", "noImage"}]
    /\ UNCHANGED <<plotVars, fieldVars, B, bList, F, mix, rec, libVars>>

InitTips ==
    /\ tips = [src \in TipSrcs |-> "absent"]
    /\ pending = [src \in TipSrcs |-> 0]

NextTips ==
    \/ \E src \in TipSrcs : TAdd(src)
    \/ \E src \in TipSrcs : TOnload(src)
    \/ TLoad
    \/ \E src \in TipSrcs : TTip(src)

InitBrush ==
    /\ B = [isActive |-> TRUE, c |-> "#000000", w |-> 1, name |-> "HB", cr |-> NoClip]
    /\ bList = _standard_brushes
    /\ F = [isActive |-> FALSE, c |-> "undefined"]
    /\ mix = [open |-> 0, dirty |-> FALSE]
    /\ rec = NoRec
    /\ out = Quiet

-----------------------------------------------------------------------------
Init == InitPlot /\ InitField /\ InitBrush /\ InitTips /\ InitPoly /\ InitGrow

SpecPlot == Init /\ [][NextPlot]_vars

SpecField == Init /\ [][NextField]_vars

SpecBrush == Init /\ [][NextBrush]_vars

SpecShape == Init /\ [][NextShape]_vars

SpecTips == Init /\ [][NextTips]_vars

SpecPoly == Init /\ [][NextPoly]_vars

SpecGrow == Init /\ [][NextGrow]_vars

SpecClip == Init /\ [][NextClip]_vars

SpecSpline == Init /\ [][NextSpline]_vars

SpecSample == Init /\ [][NextSample]_vars

SpecCont == Init /\ [][NextCont]_vars

SpecLoad == Init /\ [][NextLoad]_vars

SpecFlowShape == Init /\ [][NextFlowShape]_vars

-----------------------------------------------------------------------------
(* Claims about the Plot and the field registry (SpecPlot, SpecField) *)

\* C1: for every finished Plot of type "curve", Plot.angle sampled at
\* increasing distances over the closed range [0, totalLength] (the end point
\* included) returns numbers, and two adjacent samples never differ by more
\* than 180 degrees.
C1_AngleStepAtMost180 ==
    (plot.type = "curve" /\ plot.ended) =>
        \A d \in 0 .. (plot.length - 1) :
            \E a \in {angle(plot, d)}, b \in {angle(plot, d + 1)} :
                IsNum(a) /\ IsNum(b) /\ Abs(a.v - b.v) <= 180

\* C12: after any addSegment / endPlot calls every stored angle sample of a
\* Plot lies in [0, 360), and so does every number Plot.angle(d) returns over
\* [0, totalLength] while the rotation offset is 0.
C12_AnglesNormalized ==
    (plot.type \in PlotTypes) =>
        /\ \A i \in 1 .. Len(plot.angles) :
              0 <= plot.angles[i] /\ plot.angles[i] < 360
        /\ (plot.dir = 0 /\ HasLength(plot)) =>
              \A d \in 0 .. plot.length :
                  \E a \in {angle(plot, d)} :
                      IsNum(a) => (0 <= a.v /\ a.v < 360)

\* C5: the grid used for the currently selected field holds values produced by
\* that field's own generator, whatever other fields were generated or
\* refreshed since.
C5_CurrentGridIsOwn ==
    (isReady /\ ffCurrent \in FieldNames /\ Registered(ffCurrent)) =>
        flow_field(FFState).by = ffCurrent

\* C6: every addField(name, generatorFn) call, in whatever state it is made
\* (also after disableField), returns with the field influence on and with
\* name as the current field.
C6_AddActivates ==
    [][\A n \in UserFields :
          (\E draws \in LoadDraws, rnd \in RandDraws : AddField(n, draws, rnd))
              => (ffActive' /\ ffCurrent' = n)]_vars

\* C11: refresh(t) of a built-in field draws no new random values: when the
\* grid of the current built-in field was generated by that field for time t,
\* refreshing it again with the same t produces the same grid.
C11_RefreshKeepsRandomDraws ==
    [][\A t \in TimeInputs :
          (/\ IsStandard(ffCurrent)
           /\ flow_field(FFState).by = ffCurrent
           /\ flow_field(FFState).t = t
           /\ \E rnd \in RandDraws : RefreshField(t, rnd))
              => ffShared' = ffShared]_vars

-----------------------------------------------------------------------------
(* Claims about the shape recorder and the Spline (SpecShape) *)

\* C2: a curvature-0 Spline over N points has exactly N - 1 segments, segment
\* i carrying the Euclidean length and the bearing of point pair i, a move
\* towards +y (from (10,0) to (10,10)) being bearing 90; built from
\* [(0,0),(10,0),(10,10)] it has 2 segments, bearings 0 and 90, length 20.
C2_SplineSegmentsCarryBearing ==
    (out.op \in {"spline", "endShape"}) =>
        /\ Len(out.built.segments) = Len(out.args) - 1
        /\ \A i \in 1 .. (Len(out.args) - 1) :
              /\ out.built.segments[i] =
                     dist(out.args[i].x, out.args[i].y, out.args[i + 1].x, out.args[i + 1].y)
              /\ out.built.angles[i] =
                     (CASE out.args[i + 1].y = out.args[i].y
                              /\ out.args[i + 1].x >= out.args[i].x -> 0
                        [] out.args[i + 1].x = out.args[i].x
                              /\ out.args[i + 1].y > out.args[i].y -> 90
                        [] out.args[i + 1].y = out.args[i].y
                              /\ out.args[i + 1].x < out.args[i].x -> 180
                        [] out.args[i + 1].x = out.args[i].x
                              /\ out.args[i + 1].y < out.args[i].y -> 270)
        /\ (out.args = <<Pt(0, 0), Pt(Px(10), 0), Pt(Px(10), Px(10))>>) =>
              /\ out.built.segments = <<Px(10), Px(10)>>
              /\ out.built.angles[1] = 0 /\ out.built.angles[2] = 90
              /\ out.built.length = Px(20)

\* C4: every endShape call and every endStroke call that returns leaves the
\* recorder idle with the recording consumed, whatever the fill and stroke
\* toggles are; endShape with the fill on fills the recorded polygon once.
C4_EndReturnsRecorderToIdle ==
    /\ (out.op \in {"endShape", "endStroke"} /\ ~out.hung) =>
           (rec = NoRec /\ ~out.error)
    /\ (out.op = "endShape" /\ ~out.hung /\ F.isActive) => out.fills = 1

-----------------------------------------------------------------------------
(* Claims about the brush engine (SpecBrush) *)

\* C3: while the stroke is off (after noStroke(), before the next stroke()),
\* no drawing operation evaluates or places a brush tip.
C3_NoStrokeNoTips ==
    (~B.isActive /\ out.op \in {"line", "flowLine", "flowShape", "hatch", "rect"}) =>
        (out.evals = 0 /\ out.tips = <<>>)

\* C7: after every completed drawing call no mask session is open and the mask
\* is empty; the call's mask events are one block begin, end, blend, clear per
\* blend-brush stroke (blended with the stroke colour) followed by one per fill
\* (blended with the fill colour), so no session is nested in another.
C7_MaskSessionsBalanced ==
    (~out.hung) =>
        /\ mix.open = 0 /\ ~mix.dirty
        /\ \E n \in {(IF BrushDef(B.name).type \in {"marker", "custom", "image"}
                        THEN out.strokes ELSE 0)} :
              /\ Len(out.log) = 4 * (n + out.fills)
              /\ \A k \in 1 .. (n + out.fills) :
                    /\ out.log[4 * k - 3] = Ev("begin", "")
                    /\ out.log[4 * k - 2] = Ev("end", "")
                    /\ out.log[4 * k - 1] = Ev("blend", IF k <= n THEN B.c ELSE F.c)
                    /\ out.log[4 * k] = Ev("clear", "")

C7_Witness ==
    /\ out.op = "rect" /\ ~out.hung
    /\ B.isActive /\ B.name = "marker" /\ F.isActive
    /\ out.strokes = 4 /\ out.fills = 1 /\ Len(out.log) = 20

\* C8: every call of line, flowLine, flowShape and hatch returns, for every
\* brush, stroke weight, hatch spacing and pressure.
C8_DrawingCallsReturn ==
    (out.op \in {"line", "flowLine", "flowShape", "hatch"}) => ~out.hung

C10_FlowLineOnFlatFieldIsLine ==
    (out.op = "flowLine" /\ ffActive /\ Env(Sys).cell = 0) =>
        \E ln \in {line(D0(Sys.m), Env(Sys), out.args[1], out.args[2],
                        out.args[1] + out.args[3] * cos(-out.args[4]),
                        out.args[2] + out.args[3] * sin(-out.args[4]))} :
            /\ out.tips = ln.tips
            /\ out.evals = ln.evals
            /\ out.hung = ln.hung

C10_Witness ==
    /\ out.op = "flowLine" /\ ffActive /\ ffCurrent = "flat0"
    /\ out.args[4] = 90
    /\ Len(out.tips) > 1
    /\ out.tips[2].y < out.tips[1].y

\* C13: in every interleaving of an image's onload with preload and drawing,
\* the entry of T.tips for a source is unset (false, or the converted picture
\* that preload has not loaded yet) or a loaded image of the picture; an
\* onload never replaces a loaded image by something else; and preload never
\* loads an entry that is still false.
C13_TipUnsetOrLoaded ==
    [][\A src \in TipSrcs :
          /\ tips'[src] \in {"absent", "false", "dataURL", "image"}
          /\ (tips[src] = "image" /\ TOnload(src)) => tips'[src] = "image"
          /\ (TLoad /\ TipsSize # 0) => tips[src] # "false"]_vars

\* C14: vertex or move called while no recording is open (before any begin* or
\* after the matching end*) or while a recording of the other kind is open
\* throws an error and leaves the recorder, the brush selection and the fill
\* selection as they were; so once endShape or endStroke has been called and
\* has come back, the recorder takes no further vertex or move.
C14_InvalidCallsRejected ==
    [][/\ \A v \in VertexInputs :
             (rec.mode # "shape" /\ Vertex(v)) =>
                 out'.error /\ rec' = rec /\ B' = B /\ F' = F
       /\ \A a \in MoveAngles, len \in MoveLengths, pr \in MovePressures :
             (rec.mode # "stroke" /\ Move(a, len, pr)) =>
                 out'.error /\ rec' = rec /\ B' = B /\ F' = F
       /\ \A a \in CloseInputs :
             (EndShape(a) /\ ~out'.hung) => rec'.mode # "shape"
       /\ \A a \in MoveAngles, pr \in MovePressures :
             (EndStroke(a, pr) /\ ~out'.hung) => rec'.mode # "stroke"]_vars

\* C15: Polygon.intersect returns the same set of points for a line p1 -> p2
\* and for the line p2 -> p1, whatever the polygon's cache holds for either.
C15_IntersectSymmetric ==
    \A ln \in QueryLines :
        {intersectPoints(polygon.cache, polygon.a, ln)[q] :
            q \in 1 .. Len(intersectPoints(polygon.cache, polygon.a, ln))}
        = {intersectPoints(polygon.cache, polygon.a, Reverse(ln))[q] :
            q \in 1 .. Len(intersectPoints(polygon.cache, polygon.a, Reverse(ln)))}

\* C16: hatch(polygon, s, 0) with spacing s > 0 over one convex polygon, rand
\* and gradient off, draws horizontal lines on n levels with n within 1 of
\* boundingHeight / s, and both ends of every line drawn lie on the boundary
\* of the polygon.
OnSide(pt, sd) ==
    /\ (sd[2].x - sd[1].x) * (pt.y - sd[1].y) = (sd[2].y - sd[1].y) * (pt.x - sd[1].x)
    /\ Min2(sd[1].x, sd[2].x) <= pt.x /\ pt.x <= Max2(sd[1].x, sd[2].x)
    /\ Min2(sd[1].y, sd[2].y) <= pt.y /\ pt.y <= Max2(sd[1].y, sd[2].y)

OnBoundary(array, pt) == \E i \in 1 .. Len(array) : OnSide(pt, sides(array)[i])

HatchLevels(lines) == Cardinality({lines[i][2] : i \in 1 .. Len(lines)})

BoundingHeight(array) == MaxOf(Ys(array)) - MinOf(Ys(array))

C16_HatchCountAndEnds ==
    (/\ out.op = "hatch" /\ Len(out.args) = 3
     /\ out.args[1] > 0 /\ out.args[3] = 0 /\ ~out.hung) =>
        /\ out.args[1] * (HatchLevels(out.lines) - 1) <= BoundingHeight(polygon.a)
        /\ BoundingHeight(polygon.a) <= out.args[1] * (HatchLevels(out.lines) + 1)
        /\ \A i \in 1 .. Len(out.lines) :
              /\ out.lines[i][2] = out.lines[i][4]
              /\ OnBoundary(polygon.a, Pt(out.lines[i][1], out.lines[i][2]))
              /\ OnBoundary(polygon.a, Pt(out.lines[i][3], out.lines[i][4]))

\* C17: FillPolygon.grow(0) returns a polygon with at least as many vertices
\* as the polygon it grows, and growing that one by grow(0) again gives at
\* least the original number of vertices.
C17_GrowKeepsVertices ==
    [][\A degrow \in BOOLEAN, dr \in GrowDraws :
          Grow(0, degrow, dr) =>
              /\ Len(pol'.obj.v) >= Len(pol.obj.v)
              /\ \A dg2 \in BOOLEAN, dr2 \in GrowDraws :
                    Len(grow(pol'.obj, 0, dg2, dr2).v) >= Len(pol.obj.v)]_vars

C17_Witness ==
    /\ out.op = "grow" /\ out.args[1] = 0
    /\ pol.grows = 2 /\ out.args[3] = 6
    /\ Len(pol.obj.v) = 12

\* C18: for every Plot that has recorded a sample and every d greater than the
\* total length of its segments, Plot.angle(d) returns the last angle recorded
\* and Plot.pressure(d) the last pressure recorded.
C18_PastEndReturnsLast ==
    (plot.type \in PlotTypes /\ Len(plot.pres) > 0) =>
        \A d \in SampleDists(plot) :
            d > SumSeq(plot.segments) =>
                /\ angle(plot, d) = Num(plot.angles[Len(plot.angles)])
                /\ pressure(plot, d) = Num(plot.pres[Len(plot.pres)])

\* What the report of a line or flowLine says about step k of the stroke: the
\* position at the next B.tip() call, or at the end of the call after the
\* last one; whether the position went on by one spacing; whether plotted did.
StepAfter(k) == IF k < Len(out.steps) THEN out.steps[k + 1] ELSE Step(out.pos, FALSE)

Moved(a, b, st) == ~a.nan /\ ~b.nan /\ Abs(b.x - a.x) + Abs(b.y - a.y) = st

PlottedAdvanced(a, b, st) == IsNum(a.plotted) /\ b.plotted = Num(a.plotted.v + st)

ClippedStroke == out.op \in {"line", "flowLine"} /\ B.cr.on /\ ~out.hung

SamePlace(a, b) == a.nan = b.nan /\ (~a.nan => (a.x = b.x /\ a.y = b.y))

MovedStroke == out.op \in {"line", "flowLine"} /\ ~out.hung

\* C20: when the position of a stroke is outside the active field grid
\* (outside the canvas bound when no field is active), moveTo leaves x and y
\* unchanged and advances plotted by one step length; every later moveTo of the
\* stroke is a no-move too, and the later tips are evaluated at that position.
C20_OutsideFreezes ==
    MovedStroke =>
        \A k \in 1 .. Len(out.steps) :
            ~isIn(out.steps[k], ffActive) =>
                /\ SamePlace(out.steps[k], StepAfter(k))
                /\ PlottedAdvanced(out.steps[k], StepAfter(k), spacing(Env(Sys)))
                /\ \A j \in k .. Len(out.steps) :
                      /\ SamePlace(out.steps[k], out.steps[j])
                      /\ PlottedAdvanced(out.steps[j], StepAfter(j), spacing(Env(Sys)))
                /\ SamePlace(out.steps[k], out.pos)

C20_Witness ==
    /\ MovedStroke
    /\ Len(out.steps) >= 3
    /\ isIn(out.steps[1], ffActive)
    /\ ~SamePlace(out.steps[1], out.steps[2])
    /\ \E k \in 2 .. Len(out.steps) - 1 :
          /\ ~isIn(out.steps[k], ffActive)
          /\ out.steps[k + 1].drew

ShapeStroke == out.op = "flowShape" /\ ~out.hung /\ Len(out.args) = 4

\* C21: when the position of a stroke that follows a plot is outside the
\* active field grid (outside the canvas bound when no field is active),
\* plotTo leaves x and y unchanged and advances plotted by the step length
\* divided by the scale argument, so plotted stays a finite number.
C21_PlotToOutsideAdvances ==
    ShapeStroke =>
        \A k \in 1 .. Len(out.steps) :
            (~isIn(out.steps[k], ffActive) /\ IsNum(out.steps[k].plotted)) =>
                /\ SamePlace(out.steps[k], StepAfter(k))
                /\ StepAfter(k).plotted =
                      Num(out.steps[k].plotted.v + Quot(spacing(Env(Sys)), out.args[4]))

PointSet(points) == {points[q] : q \in 1 .. Len(points)}

\* C22: after any sequence of intersect and hatch calls (hatch with rand > 0
\* included), Polygon.intersect(segment) returns the same point set as a fresh,
\* uncached computation for that polygon and segment, for the lines a caller
\* asks about and for every line the cache has an entry for.
C22_CacheMatchesFresh ==
    /\ \A ln \in QueryLines :
          PointSet(intersectPoints(polygon.cache, polygon.a, ln))
              = PointSet(intersect(polygon.a, ln))
    /\ \A e \in polygon.cache :
          PointSet(intersectPoints(polygon.cache, polygon.a, e.key))
              = PointSet(intersect(polygon.a, e.key))

\* C23: after any number of load() calls on a canvas of width W, explicit or
\* made by the first field call, each built-in brush's spacing (and with it
\* weight and vibration, which globalScale multiplies in the same statement)
\* is its catalog value times W / 250, once.
C23_ScaledOnce ==
    (out.op = "load") =>
        \A n \in BrushNames :
            bList[n].spacing = Quot(BrushDef(n).spacing * out.args[1], Px(250))

\* The points at which the i-th probe line of the reported hatch crosses the
\* polygon, the part of that line inside the (convex) polygon, and the lines
\* the hatch drew at a height.
Crossing(i) == intersect(polygon.a, linea(polygon.a, out.args[1], 0, i))

InsidePart(dd) == <<MinOf(Xs(dd)), dd[1].y, MaxOf(Xs(dd)), dd[1].y>>

LinesAt(y) == {out.lines[k] : k \in {j \in 1 .. Len(out.lines) : out.lines[j][2] = y}}

\* C24: for every probe line of a hatch with rand off, over a polygon whose
\* cache holds what intersect computed, the sub-segments drawn are exactly the
\* part of the probe line inside the polygon, also when the probe line passes
\* through a vertex of the polygon.
C24_HatchDrawsInside ==
    (/\ out.op = "hatch" /\ Len(out.args) = 3
     /\ out.args[1] > 0 /\ out.args[3] = 0 /\ ~out.hung
     /\ \A e \in polygon.cache : e.points = intersect(polygon.a, e.key)) =>
        \A i \in 0 .. (BoundingHeight(polygon.a) \div out.args[1]) :
            Crossing(i) # <<>> =>
                LinesAt(Crossing(i)[1].y) = {InsidePart(Crossing(i))}

\* The hatch lines of the reported hatch that have dots, and the lines it
\* drew from one height to another: the connectors.
DotLines ==
    gdots([j \in 1 .. (BoundingHeight(polygon.a) \div out.args[1]) + 1 |->
              SortSeq(Crossing(j - 1), PtBefore)])

IsConnector(l) == l[2] # l[4]

\* C25: with the continuous option, for each hatch line after the first, one
\* connector is drawn, from the last point of the previous hatch line to the
\* first point of the current one, also when a line has more than two
\* intersection points.
C25_OneConnectorPerLine ==
    (/\ out.op = "hatch" /\ Len(out.args) = 4 /\ ~out.hung /\ ~out.error
     /\ \A e \in polygon.cache : e.points = intersect(polygon.a, e.key)) =>
        SelectSeq(out.lines, IsConnector)
            = [j \in 1 .. Len(DotLines) - 1 |->
                  <<DotLines[j][Len(DotLines[j])].x, DotLines[j][Len(DotLines[j])].y,
                    DotLines[j + 1][1].x, DotLines[j + 1][1].y>>]

\* C26: in blend mode, every markerTip footprint pass draws the tip at five
\* fractions of the computed pressure: 20%, 40%, 60%, 80% and 100%.
C26_FivePasses ==
    (out.op \in {"line", "flowLine"} /\ ~out.hung) =>
        \A k \in 1 .. Len(out.marks) : out.marks[k] = <<20, 40, 60, 80, 100>>

\* Where segment i of the plot starts, and the sampled distances within it.
SegStart(i) == SumSeq(SubSeq(plot.segments, 1, i - 1))

Within(i) == {d \in SampleDists(plot) : SegStart(i) <= d /\ d < SegStart(i) + plot.segments[i]}

\* C27 as stated: for a Plot of type 'segments', angle(d) and pressure(d) are
\* piecewise-constant: within each segment they equal that segment's recorded
\* angle (turned by the plot's rotation) and its recorded pressure.
C27_SegmentsConstant ==
    (plot.type = "segments") =>
        \A i \in 1 .. Len(plot.segments) : \A d \in Within(i) :
            /\ angle(plot, d) = Num(plot.angles[i] + plot.dir)
            /\ pressure(plot, d) = Num(plot.pres[i])

\* C27 amended: for a Plot of type 'segments', angle(d) is piecewise-constant:
\* within each segment it equals that segment's recorded angle, turned by the
\* plot's rotation, with no interpolation toward the next sample.
C27_SegmentsAngleConstant ==
    (plot.type = "segments") =>
        \A i \in 1 .. Len(plot.segments) : \A d \in Within(i) :
            angle(plot, d) = Num(plot.angles[i] + plot.dir)

C27_Witness ==
    /\ plot.type = "segments" /\ Len(plot.segments) = 2
    /\ plot.segments[1] > 0 /\ plot.segments[2] > 0
    /\ plot.angles[1] # plot.angles[2]
    /\ plot.index = 1 /\ plot.suma = plot.segments[1]
    /\ ret = Num(plot.angles[2] + plot.dir)

\* C28: Plot.pressure(d) depends on the recorded segments and on d only:
\* whatever distance e was last passed to angle(), pressure(d) is what the
\* segment containing d gives, that is, what it is right after calcIndex(d).
C28_PressureIgnoresIndex ==
    (plot.type \in PlotTypes) =>
        \A d \in SampleDists(plot) : \A e \in SampleDists(plot) :
            pressure(angleState(plot, e), d) = pressure(calcIndex(plot, d), d)

C30_SplineHasLength ==
    (/\ out.op = "spline" /\ Len(out.args) >= 2
     /\ \A i \in 1 .. Len(out.args) : \A j \in 1 .. Len(out.args) :
           i # j => out.args[i] # out.args[j]) =>
        /\ Len(out.built.segments) >= 1
        /\ out.built.length > 0
        /\ (~out.hung /\ spacing(Env(Sys)) > 0) => out.evals > 0

====
